---- MODULE Spec2Model ----
(***************************************************************************)
(* Verification model of the powerbox firmware core: the coordination      *)
(* fabric that couples the PSU, the inverter and the BMS through           *)
(* synchronous callbacks (core/app.py), the BMS cell-voltage threshold     *)
(* engine (core/drivers/bms.py), the instruction queue (core/lib/queue.py) *)
(* and the entry points of externally originated actions                   *)
(* (core/drivers/ble.py, core/drivers/button.py).                          *)
(*                                                                         *)
(* The whole component state is one record, sys.  Every method of the      *)
(* source is an operator from a state record to a state record, so a       *)
(* handler together with its synchronous callback fan-out is one atomic    *)
(* action.  sys.log records, for the handler that ran last, the sequence   *)
(* of calls, UART writes and events it produced.  q is the instruction     *)
(* queue with its runner; obs and stream are history variables.            *)
(*                                                                         *)
(* The specifications share the state.  Spec: commands, button and the     *)
(* three device tasks.  SpecThreshold: the BMS task over every kind of     *)
(* status reply.  SpecQueue: BLE writes, button and the queue runner.      *)
(* SpecHealth and SpecSettle: the BMS snapshot and the inverter task with  *)
(* a clock, sys.now, that only these two advance.  SpecBase: the BaseState *)
(* methods on a state object of its own, sys.probe, with recording         *)
(* subscribers.  SpecStatus, SpecInverterFrames and SpecPsuFrames: the     *)
(* status exchange of the BMS and the frame parsers of the inverter and    *)
(* the PSU over their input classes.  SpecWrite and SpecCurrent: the       *)
(* characteristic writes of the BLE server.  SpecHistory: one telemetry    *)
(* ring, sys.history.  SpecProfile: the profile, sys.profile, with its     *)
(* file and the reboot that reads it.  SpecSupervisor: the commands and    *)
(* the supervisor around the main coroutine.  SpecSympathy: the BMS task   *)
(* while a subscriber of its events raises.  SpecAccounting: the BMS task  *)
(* with the accounting of the self-consumption followed.  SpecBmsState:    *)
(* the handler of the PSU for a BMS state.  SpecAts: the transfer switch,  *)
(* sys.ats, with its two sense pins.  SpecKeys: profile.set over the keys  *)
(* of the data model.  SpecWake: the runner of the queue step by step,     *)
(* with the put event.  SpecGate: on() and off() in two steps with the     *)
(* button's timer callback in between.  SpecRunner: the runner with        *)
(* instructions that raise.                                                *)
(* Not modelled: the display and BLE notification sinks.                   *)
(***************************************************************************)
EXTENDS Integers, Sequences, FiniteSets, TLC

VARIABLES sys, obs, stream, q

vars == <<sys, obs, stream, q>>

\* None: a value outside the range of every nullable field
NULL == -1

\* capacity of every telemetry ring
HISTORY_SIZE == 120

(***************************************************************************)
(* Bounds of the model.                                                    *)
(***************************************************************************)
\* replies of the BMS to modify frames that one handler may consume
MaxQueries == 2
\* cap of the BMS confirmation counter (unbounded in the source)
MaxConfirmations == 4
\* cap of the ghost counters of consecutive frames
MaxRun == 3
\* number of add() calls explored on the instruction queue
MaxAdds == 3
\* last second of the clock in the timed specifications
MaxClock == 11
\* points pushed to the telemetry ring of SpecHistory: more than its capacity
MaxPushes == 125
\* largest mcu_consumed explored in SpecAccounting, in microampere-hours
MaxConsumed == 1500

(***************************************************************************)
(* Program constants.                                                      *)
(***************************************************************************)
ERROR_TIMEOUT == 0
ERROR_EXCEPTION == 1
ERROR_NO_RESPONSE == 2
ERROR_BAD_RESPONSE == 3
ERROR_EXTERNAL == 4
ERROR_PIN == 6
ERROR_NO_MODIFY_RESPONSE == 2
TURN_OFF_MAX_CONFIRMATIONS == 3
\* cell thresholds in mV (the source compares mV / 1000 with volts)
TurnOffMinVoltage == 2750
TurnOffMaxVoltage == 3500
PSU_REDUCE_CURRENT_VOLTAGE == 3450
CURRENT_CHANNEL == 0
STATE_FREQUENCY == 2
bootstrapping_delay == 3
HealthGrace == 5

(***************************************************************************)
(* Callback registration at boot, in registration order.  The display      *)
(* subscribers registered before these are sinks and are not modelled.     *)
(***************************************************************************)
BatteryChargedCallbacks == <<"psu.off">>

BatteryDischargedCallbacks_none == <<>>

BatteryDischargedCallbacks == <<"inverter.off">>

BmsChangeCallbacks_off == <<"psu.off">>

BmsChangeCallbacks == <<"psu.check_threshold">>

PsuOnCallbacks_swapped == <<"bms.enable_charge", "inverter.off">>

PsuOnCallbacks_noInverterOff == <<"bms.enable_charge">>

PsuOnCallbacks == <<"inverter.off", "bms.enable_charge">>

PsuOffCallbacks_none == <<>>

PsuOffCallbacks == <<"bms.disable_charge">>

InverterOnCallbacks == <<"psu.off", "bms.enable_discharge">>

InverterOffCallbacks == <<"bms.disable_discharge">>

ProfileChangeCallbacks == <<"ota.on_profile_state", "ats.on_profile_state">>

\* probe is a BaseState object of its own with two recording subscribers per
\* event, registered in this order; it is used to state the properties of
\* BaseState itself and no component of the firmware touches it
ProbeOnCallbacks == <<"probe.on_a", "probe.on_b">>

ProbeOffCallbacks == <<"probe.off_a", "probe.off_b">>

ProbeChangeCallbacks == <<"probe.change_a", "probe.change_b">>

ProbeSubscribers ==
    {"probe.on_a", "probe.on_b", "probe.off_a", "probe.off_b",
     "probe.change_a", "probe.change_b"}

add_callback(c, event) ==
    CASE c = "bms" /\ event = "BATTERY_CHARGED" -> BatteryChargedCallbacks
      [] c = "bms" /\ event = "BATTERY_DISCHARGED" -> BatteryDischargedCallbacks
      [] c = "bms" /\ event = "CHANGE" -> BmsChangeCallbacks
      [] c = "psu" /\ event = "ON" -> PsuOnCallbacks
      [] c = "psu" /\ event = "OFF" -> PsuOffCallbacks
      [] c = "inverter" /\ event = "ON" -> InverterOnCallbacks
      [] c = "inverter" /\ event = "OFF" -> InverterOffCallbacks
      [] c = "profile" /\ event = "CHANGE" -> ProfileChangeCallbacks
      [] c = "probe" /\ event = "ON" -> ProbeOnCallbacks
      [] c = "probe" /\ event = "OFF" -> ProbeOffCallbacks
      [] c = "probe" /\ event = "CHANGE" -> ProbeChangeCallbacks
      [] OTHER -> <<>>

(***************************************************************************)
(* The log of the running handler.                                         *)
(***************************************************************************)
PsuTelemetryNull(s) ==
    /\ s.psu.rpm = NULL /\ s.psu.power1 = NULL /\ s.psu.power2 = NULL
    /\ s.psu.ac = NULL /\ s.psu.t1 = NULL /\ s.psu.t2 = NULL
    /\ s.psu.t3 = NULL /\ s.psu.state = NULL /\ s.psu.unknown = NULL

InverterTelemetryNull(s) ==
    /\ s.inverter.ac = NULL /\ s.inverter.power = NULL
    /\ s.inverter.dc = NULL /\ s.inverter.temperature = NULL
    /\ s.inverter.level = NULL /\ s.inverter.rpm_a = NULL
    /\ s.inverter.rpm_b = NULL

Log(s, ev, what) ==
    [s EXCEPT !.log = Append(@, [ev |-> ev, what |-> what,
                                 psu_active |-> s.psu.active,
                                 psu_gate |-> s.psu.power_gate_pin,
                                 psu_null |-> PsuTelemetryNull(s),
                                 inverter_active |-> s.inverter.active,
                                 inverter_gate |-> s.inverter.power_gate_pin,
                                 inverter_null |-> InverterTelemetryNull(s),
                                 uart |-> s.uart,
                                 since_on |-> s.now - s.inverter.on_at,
                                 probe_active |-> s.probe.active])]

RECURSIVE Call(_, _)
RECURSIVE RunCallbacks(_, _)

(***************************************************************************)
(* BaseState (core/drivers/__init__.py).  c names the component whose      *)
(* state object the method is called on.                                   *)
(***************************************************************************)
\* s.notified: the components whose packed state the running handler has
\* pushed to the transport on their UUID
BaseState_notify(c, s) ==
    RunCallbacks(add_callback(c, "CHANGE"),
                 [s EXCEPT !.notified = @ \cup {c}])

BaseState_set_error_always(c, s, b) ==
    BaseState_notify(c, [s EXCEPT ![c].internal_errors = @ \cup {b}])

BaseState_set_error(c, s, b) ==
    LET new_state == s[c].internal_errors \cup {b}
    IN  IF new_state # s[c].internal_errors
        THEN BaseState_notify(c, [s EXCEPT ![c].internal_errors = new_state])
        ELSE s

BaseState_reset_error(c, s, b) ==
    LET new_state == s[c].internal_errors \ {b}
    IN  IF new_state # s[c].internal_errors
        THEN BaseState_notify(c, [s EXCEPT ![c].internal_errors = new_state])
        ELSE s

BaseState_clear_internal_errors(c, s) ==
    IF s[c].internal_errors = {}
    THEN s
    ELSE BaseState_notify(c, [s EXCEPT ![c].internal_errors = {}])

BaseState_on_notifyFirst(c, s) ==
    LET s1 == [s EXCEPT ![c].active = TRUE]
        s2 == BaseState_notify(c, s1)
    IN  RunCallbacks(add_callback(c, "ON"), s2)

BaseState_on(c, s) ==
    LET s1 == [s EXCEPT ![c].active = TRUE]
        s2 == RunCallbacks(add_callback(c, "ON"), s1)
    IN  BaseState_notify(c, s2)

BaseState_off(c, s) ==
    LET s1 == [s EXCEPT ![c].active = FALSE]
        s2 == RunCallbacks(add_callback(c, "OFF"), s1)
    IN  BaseState_notify(c, s2)

BaseState_trigger(c, s, event) ==
    RunCallbacks(add_callback(c, event), Log(s, "fire", event))

\* s.now is time.time(), in seconds
BaseState_check_health(c, s) ==
    LET diff == s.now - s[c].state_modified
    IN  IF diff - HealthGrace > STATE_FREQUENCY
        THEN BaseState_set_error(c, s, ERROR_TIMEOUT)
        ELSE BaseState_reset_error(c, s, ERROR_TIMEOUT)

\* the history part of snapshot (build_history, the history notification)
\* changes nothing that is modelled
BaseState_snapshot(c, s) ==
    LET s1 == [s EXCEPT ![c].state_modified = s.now]
    IN  BaseState_notify(c, BaseState_check_health(c, s1))

(***************************************************************************)
(* The UART of the BMS: a modify frame is written, the reply is the next   *)
(* element of s.replies (TRUE: some bytes, FALSE: nothing); after the last *)
(* element nothing arrives.                                                *)
(***************************************************************************)
UART_reply(s) == IF s.replies = <<>> THEN FALSE ELSE Head(s.replies)

UART_query(s, frame) ==
    LET s1 == Log(s, "tx", frame)
    IN  [s1 EXCEPT !.replies = IF @ = <<>> THEN @ ELSE Tail(@),
                   !.charge_frame =
                       IF frame \in {"ENABLE_CHARGE", "DISABLE_CHARGE"}
                       THEN frame ELSE @,
                   !.discharge_frame =
                       IF frame \in {"ENABLE_DISCHARGE", "DISABLE_DISCHARGE"}
                       THEN frame ELSE @]

(***************************************************************************)
(* BMSController: the modify commands (core/drivers/bms.py).               *)
(***************************************************************************)
BMSController_enable_charge(s) ==
    LET data == UART_reply(s)
        s1 == UART_query(s, "ENABLE_CHARGE")
    IN  IF data
        THEN BaseState_reset_error("bms", s1, ERROR_NO_RESPONSE)
        ELSE BaseState_set_error("bms", s1, ERROR_NO_RESPONSE)

BMSController_disable_charge(s) ==
    LET data == UART_reply(s)
        s1 == UART_query(s, "DISABLE_CHARGE")
    IN  IF data
        THEN BaseState_reset_error("bms", s1, ERROR_NO_MODIFY_RESPONSE)
        ELSE BaseState_set_error("bms", s1, ERROR_NO_MODIFY_RESPONSE)

BMSController_enable_discharge(s) ==
    LET data == UART_reply(s)
        s1 == UART_query(s, "ENABLE_DISCHARGE")
    IN  IF data
        THEN BaseState_reset_error("bms", s1, ERROR_NO_MODIFY_RESPONSE)
        ELSE BaseState_set_error("bms", s1, ERROR_NO_MODIFY_RESPONSE)

BMSController_disable_discharge(s) ==
    LET data == UART_reply(s)
        s1 == UART_query(s, "DISABLE_DISCHARGE")
    IN  IF data
        THEN BaseState_reset_error("bms", s1, ERROR_NO_MODIFY_RESPONSE)
        ELSE BaseState_set_error("bms", s1, ERROR_NO_MODIFY_RESPONSE)

(***************************************************************************)
(* PowerSupplyController (core/drivers/psu.py).                            *)
(***************************************************************************)
PowerSupplyController_set_current(s, channel) ==
    [s EXCEPT !.psu.current_channel = channel,
              !.psu.current_a_pin = channel % 2,
              !.psu.current_b_pin = (channel \div 2) % 2]

\* the BMS CHANGE subscriber registered at boot; its body is not part of
\* the sources and follows the specification of the PSU client
PowerSupplyController_check_threshold(s) ==
    IF /\ s.psu.active
       /\ \E i \in DOMAIN s.bms.cells :
             /\ s.bms.cells[i] # NULL
             /\ s.bms.cells[i] >= PSU_REDUCE_CURRENT_VOLTAGE
       /\ s.psu.current_channel > 0
    THEN PowerSupplyController_set_current(s, s.psu.current_channel - 1)
    ELSE s

PSUState_clear(s) ==
    BaseState_notify("psu",
        [s EXCEPT !.psu.rpm = NULL,
                  !.psu.active = FALSE,
                  !.psu.power1 = NULL,
                  !.psu.power2 = NULL,
                  !.psu.ac = NULL,
                  !.psu.t1 = NULL,
                  !.psu.t2 = NULL,
                  !.psu.t3 = NULL,
                  !.psu.state = NULL,
                  !.psu.external_errors = NULL])

\* on(): up to self._power_gate_pin.on()
PowerSupplyController_on_gate(s) ==
    [Log(s, "call", "psu.on") EXCEPT !.uart = "psu", !.psu.power_gate_pin = 1]

\* on(): from self._state.on()
PowerSupplyController_on_state(s) ==
    Log(BaseState_on("psu", s), "ret", "psu.on")

PowerSupplyController_on(s) ==
    PowerSupplyController_on_state(PowerSupplyController_on_gate(s))

\* off(): up to self._power_gate_pin.off()
PowerSupplyController_off_gate(s) ==
    [Log(s, "call", "psu.off") EXCEPT !.psu.power_gate_pin = 0]

\* off(): from self._state.off()
PowerSupplyController_off_state(s) ==
    Log(PSUState_clear(BaseState_off("psu", s)), "ret", "psu.off")

PowerSupplyController_off(s) ==
    PowerSupplyController_off_state(PowerSupplyController_off_gate(s))

(***************************************************************************)
(* InverterController (core/drivers/inverter.py).                          *)
(***************************************************************************)
InverterState_clear_keepsPower(s) ==
    BaseState_notify("inverter",
        [s EXCEPT !.inverter.active = FALSE,
                  !.inverter.ac = NULL,
                  !.inverter.dc = NULL,
                  !.inverter.temperature = NULL,
                  !.inverter.level = NULL,
                  !.inverter.rpm_a = NULL,
                  !.inverter.rpm_b = NULL,
                  !.inverter.external_errors = 0])

InverterState_clear(s) ==
    BaseState_notify("inverter",
        [s EXCEPT !.inverter.active = FALSE,
                  !.inverter.ac = NULL,
                  !.inverter.power = NULL,
                  !.inverter.dc = NULL,
                  !.inverter.temperature = NULL,
                  !.inverter.level = NULL,
                  !.inverter.rpm_a = NULL,
                  !.inverter.rpm_b = NULL,
                  !.inverter.external_errors = 0])

\* on(): up to self._power_gate_pin.on()
InverterController_on_gate(s) ==
    [Log(s, "call", "inverter.on") EXCEPT !.inverter.bootstrapping = TRUE,
                                          !.uart = "inverter",
                                          !.inverter.power_gate_pin = 1,
                                          !.inverter.on_at = s.now]

\* on(): from self._state.on()
InverterController_on_state(s) ==
    Log(BaseState_on("inverter", s), "ret", "inverter.on")

InverterController_on(s) ==
    InverterController_on_state(InverterController_on_gate(s))

\* off(): up to self._power_gate_pin.off()
InverterController_off_gate(s) ==
    [Log(s, "call", "inverter.off") EXCEPT !.inverter.bootstrapping = FALSE,
                                           !.inverter.power_gate_pin = 0]

\* off(): from self._state.off()
InverterController_off_state(s) ==
    Log(InverterState_clear(
            BaseState_clear_internal_errors("inverter",
                                            BaseState_off("inverter", s))),
        "ret", "inverter.off")

InverterController_off(s) ==
    InverterController_off_state(InverterController_off_gate(s))

InverterController_on_power_trigger(s) ==
    IF s.inverter.active
    THEN InverterController_off(s)
    ELSE InverterController_on(s)

(***************************************************************************)
(* ProfileState / ProfileController: the profile store                     *)
(* (core/drivers/profile.py).  A value of the map is a record with its     *)
(* Python type t and a tuple v that identifies it: the bit or the integer, *)
(* the four bytes of a float read from the wire, the bytes of a string or  *)
(* of a byte string.  The file holds the JSON text of the map, a function  *)
(* from keys to JSON values; JSON has one kind of string.                  *)
(***************************************************************************)
\* the keys come from const.py, which is not among the sources: distinct
\* bytes
PROFILE_KEY_ATS == CHOOSE k \in 0..255 : TRUE

PROFILE_KEY_PSU_CURRENT == CHOOSE k \in 0..255 : k \notin {PROFILE_KEY_ATS}

PROFILE_KEY_WIFI_SSID ==
    CHOOSE k \in 0..255 : k \notin {PROFILE_KEY_ATS, PROFILE_KEY_PSU_CURRENT}

PROFILE_KEY_WIFI_PASSWORD ==
    CHOOSE k \in 0..255 :
        k \notin {PROFILE_KEY_ATS, PROFILE_KEY_PSU_CURRENT,
                  PROFILE_KEY_WIFI_SSID}

PROFILE_KEY_MIN_VOLTAGE ==
    CHOOSE k \in 0..255 :
        k \notin {PROFILE_KEY_ATS, PROFILE_KEY_PSU_CURRENT,
                  PROFILE_KEY_WIFI_SSID, PROFILE_KEY_WIFI_PASSWORD}

PROFILE_KEY_MAX_VOLTAGE ==
    CHOOSE k \in 0..255 :
        k \notin {PROFILE_KEY_ATS, PROFILE_KEY_PSU_CURRENT,
                  PROFILE_KEY_WIFI_SSID, PROFILE_KEY_WIFI_PASSWORD,
                  PROFILE_KEY_MIN_VOLTAGE}

PROFILE_KEY_MCU_POWER ==
    CHOOSE k \in 0..255 :
        k \notin {PROFILE_KEY_ATS, PROFILE_KEY_PSU_CURRENT,
                  PROFILE_KEY_WIFI_SSID, PROFILE_KEY_WIFI_PASSWORD,
                  PROFILE_KEY_MIN_VOLTAGE, PROFILE_KEY_MAX_VOLTAGE}

KEY_TYPES(param) ==
    CASE param = PROFILE_KEY_ATS -> "BOOL"
      [] param = PROFILE_KEY_PSU_CURRENT -> "INT8"
      [] param \in {PROFILE_KEY_WIFI_SSID, PROFILE_KEY_WIFI_PASSWORD} ->
             "STRING"
      [] param \in {PROFILE_KEY_MIN_VOLTAGE, PROFILE_KEY_MAX_VOLTAGE,
                    PROFILE_KEY_MCU_POWER} -> "FLOAT32"
      [] OTHER -> "NONE"

\* hex(param), the key of the map
Hex(param) == <<"0x", param>>

PyNone == [t |-> "none", v |-> <<>>]

PyBool(b) == [t |-> "bool", v |-> <<IF b THEN 1 ELSE 0>>]

PyInt(n) == [t |-> "int", v |-> <<n>>]

PyFloat(v) == [t |-> "float", v |-> v]

PyStr(v) == [t |-> "str", v |-> v]

PyBytes(v) == [t |-> "bytes", v |-> v]

\* int.from_bytes(value, "big")
RECURSIVE FromBytesBig(_)
FromBytesBig(value) ==
    IF value = <<>> THEN 0
    ELSE 256 * FromBytesBig(SubSeq(value, 1, Len(value) - 1))
         + value[Len(value)]

\* struct.unpack("<f", value) raises on a buffer that is too small
ProfileState_cast_raises(param, value) ==
    KEY_TYPES(param) = "FLOAT32" /\ Len(value) < 4

ProfileState_cast(param, value) ==
    CASE KEY_TYPES(param) = "BOOL" -> PyBool(FromBytesBig(value) # 0)
      [] KEY_TYPES(param) = "INT8" -> PyInt(FromBytesBig(value))
      [] KEY_TYPES(param) = "FLOAT32" -> PyFloat(SubSeq(value, 1, 4))
      [] KEY_TYPES(param) = "STRING" -> PyStr(value)
      [] OTHER -> PyBytes(value)

\* the dictionary d with d[k] = x
DictSet(d, k, x) ==
    [i \in DOMAIN d \cup {k} |-> IF i = k THEN x ELSE d[i]]

\* dict.get
DictGet(d, k) == IF k \in DOMAIN d THEN d[k] ELSE PyNone

ProfileState_get(s, param) == DictGet(s.profile.conf, Hex(param))

\* json.dumps of a value: a byte string is written as a string
JsonDumps(x) ==
    CASE x.t = "none" -> [j |-> "null", v |-> <<>>]
      [] x.t = "bool" -> [j |-> "literal", v |-> x.v]
      [] x.t = "int" -> [j |-> "integer", v |-> x.v]
      [] x.t = "float" -> [j |-> "real", v |-> x.v]
      [] x.t \in {"str", "bytes"} -> [j |-> "string", v |-> x.v]

\* json.load of a value
JsonLoad(y) ==
    CASE y.j = "null" -> PyNone
      [] y.j = "literal" -> [t |-> "bool", v |-> y.v]
      [] y.j = "integer" -> [t |-> "int", v |-> y.v]
      [] y.j = "real" -> [t |-> "float", v |-> y.v]
      [] y.j = "string" -> [t |-> "str", v |-> y.v]

ProfileController_read(s) ==
    [k \in DOMAIN s.profile.file |-> JsonLoad(s.profile.file[k])]

ProfileController_write(s) ==
    [s EXCEPT !.profile.exists = TRUE,
              !.profile.file =
                  [k \in DOMAIN s.profile.conf |->
                      JsonDumps(s.profile.conf[k])]]

\* the defaults; the cell voltages are those of the threshold engine
ProfileDefaults ==
    (Hex(PROFILE_KEY_ATS) :> PyBool(FALSE))
    @@ (Hex(PROFILE_KEY_WIFI_SSID) :> PyNone)
    @@ (Hex(PROFILE_KEY_WIFI_PASSWORD) :> PyNone)
    @@ (Hex(PROFILE_KEY_PSU_CURRENT) :> PyInt(0))
    @@ (Hex(PROFILE_KEY_MIN_VOLTAGE) :> PyFloat(<<TurnOffMinVoltage>>))
    @@ (Hex(PROFILE_KEY_MAX_VOLTAGE) :> PyFloat(<<TurnOffMaxVoltage>>))
    @@ (Hex(PROFILE_KEY_MCU_POWER) :> PyInt(0))

\* ProfileController.__init__ on the file system of s
ProfileController_init(s) ==
    IF s.profile.exists
    THEN [s EXCEPT !.profile.conf = ProfileController_read(s)]
    ELSE ProfileController_write([s EXCEPT !.profile.conf = ProfileDefaults])

\* the state of a device that has never run: no file
InitProfile ==
    [exists |-> FALSE, file |-> <<>>, conf |-> <<>>,
     ota_ssid |-> PyNone, ota_password |-> PyNone]

OTAController_on_profile_state(s) ==
    Log([s EXCEPT
           !.profile.ota_ssid = ProfileState_get(s, PROFILE_KEY_WIFI_SSID),
           !.profile.ota_password =
               ProfileState_get(s, PROFILE_KEY_WIFI_PASSWORD)],
        "call", "ota.on_profile_state")

ATSController_on_profile_state(s) == Log(s, "call", "ats.on_profile_state")

\* value is the cast value when as_bytes is set
ProfileState_set(s, param, value) ==
    BaseState_notify("profile",
                     [s EXCEPT !.profile.conf = DictSet(@, Hex(param), value)])

ProfileController_get(s, param, default) ==
    IF ProfileState_get(s, param) = PyNone
    THEN default
    ELSE ProfileState_get(s, param)

ProfileController_set(s, param, value) ==
    ProfileController_write(ProfileState_set(s, param, value))

(***************************************************************************)
(* Dispatch of a registered callback, and the loop over a callback list.   *)
(***************************************************************************)
\* s.fault names a subscriber that raises when it is called; s.raised tells
\* that an exception is propagating
Call(name, s) ==
    CASE name = s.fault -> [Log(s, "raise", name) EXCEPT !.raised = TRUE]
      [] name = "psu.off" -> PowerSupplyController_off(s)
      [] name = "inverter.off" -> InverterController_off(s)
      [] name = "psu.check_threshold" -> PowerSupplyController_check_threshold(s)
      [] name = "bms.enable_charge" -> BMSController_enable_charge(s)
      [] name = "bms.disable_charge" -> BMSController_disable_charge(s)
      [] name = "bms.enable_discharge" -> BMSController_enable_discharge(s)
      [] name = "bms.disable_discharge" -> BMSController_disable_discharge(s)
      [] name = "ota.on_profile_state" -> OTAController_on_profile_state(s)
      [] name = "ats.on_profile_state" -> ATSController_on_profile_state(s)
      [] name \in ProbeSubscribers -> Log(s, "call", name)

RunCallbacks(cbs, s) ==
    IF cbs = <<>> \/ s.raised THEN s
    ELSE RunCallbacks(Tail(cbs), Call(Head(cbs), s))

(***************************************************************************)
(* BMSState / BMSController: the status exchange (core/drivers/bms.py).    *)
(* A reply to STATUS_REQUEST is a record: kind "empty" (no bytes), "bad"   *)
(* (a descriptor is not where it is expected; ext tells whether the 0x8B   *)
(* word was decoded before the failure) or "ok" (cells in mV and the 0x8B  *)
(* word).                                                                  *)
(***************************************************************************)
NoCells == <<NULL, NULL, NULL, NULL>>

CellVectors ==
    { <<3300, 3300, 3300, 3300>>,
      <<2700, 3300, 3300, 3300>>,
      <<3600, 3300, 3300, 3300>>,
      <<3300, 3300, 3300, 3600>>,
      <<2700, 3600, 3300, 3300>>,
      <<3600, 2700, 3300, 3300>> }

\* capacity is the battery capacity word (descriptor 0xAA) of the reply
StatusReplies ==
    {[kind |-> "empty", cells |-> NoCells, ext |-> NULL, capacity |-> NULL]}
    \cup {[kind |-> "bad", cells |-> cv, ext |-> e, capacity |-> NULL] :
              cv \in {<<3300, 3300, 3300, 3300>>}, e \in {NULL, 1}}
    \cup {[kind |-> "ok", cells |-> cv, ext |-> 0, capacity |-> 280] :
              cv \in CellVectors}
    \cup {[kind |-> "ok", cells |-> <<3300, 3300, 3300, 3300>>, ext |-> 1,
           capacity |-> 280]}

\* the replies explored together with the commands and the device tasks
FabricStatusReplies ==
    {r \in StatusReplies :
        /\ r.kind \in {"empty", "ok"}
        /\ r.ext # 1
        /\ r.cells \in {NoCells, <<3300, 3300, 3300, 3300>>,
                         <<2700, 3300, 3300, 3300>>, <<3600, 3300, 3300, 3300>>}}

\* the fields of BMSState that clear() sets to None, cells apart
BmsClearedFields ==
    {"mos_temperature", "sensor1_temperature", "sensor2_temperature",
     "voltage", "current", "soc", "soc_drift",
     "temperature_sensors", "cycles", "cycle_capacity", "battery_strings",
     "charging_allowed", "discharging_allowed",
     "total_over_voltage_protection", "total_under_voltage_protection",
     "cell_over_voltage_protection", "cell_over_voltage_recovery",
     "cell_over_voltage_delay", "cell_under_voltage_protection",
     "cell_under_voltage_recovery", "cell_under_voltage_delay",
     "cell_pressure_difference",
     "discharge_over_current", "discharge_over_current_delay",
     "charge_over_current", "charge_over_current_delay",
     "balancing_voltage", "balancing_pressure_difference",
     "battery_capacity"}

\* f @@ g takes the fields of f and, where f has none, those of g
BmsCleared ==
    [cells |-> NoCells, state |-> 0] @@ [f \in BmsClearedFields |-> NULL]

BMSState_clear(s) == [s EXCEPT !.bms = BmsCleared @@ @]

\* the words of a reply other than the cells, the 0x8B word and the
\* capacity, which are the same in every reply explored; charging_allowed
\* and discharging_allowed are bits 0 and 1 of state.  A reply that holds a
\* field current carries that current word instead of the one given here
StatusWords ==
    [mos_temperature |-> 25, sensor1_temperature |-> 24,
     sensor2_temperature |-> 23, voltage |-> 1312, current |-> 291,
     soc |-> 67, temperature_sensors |-> 2, cycles |-> 12,
     cycle_capacity |-> 340, battery_strings |-> 4, state |-> 3,
     charging_allowed |-> 1, discharging_allowed |-> 1,
     total_over_voltage_protection |-> 1460,
     total_under_voltage_protection |-> 1000,
     cell_over_voltage_protection |-> 3650,
     cell_over_voltage_recovery |-> 3550, cell_over_voltage_delay |-> 5,
     cell_under_voltage_protection |-> 2500,
     cell_under_voltage_recovery |-> 2600, cell_under_voltage_delay |-> 5,
     cell_pressure_difference |-> 300,
     discharge_over_current |-> 100, discharge_over_current_delay |-> 30,
     charge_over_current |-> 50, charge_over_current_delay |-> 30,
     balancing_voltage |-> 3400, balancing_pressure_difference |-> 10]

\* the assignments of a parse that runs to its end
BMSState_parse(s, response) ==
    LET s1 == [s EXCEPT !.bms =
                  [cells |-> response.cells,
                   external_errors |-> response.ext,
                   battery_capacity |-> response.capacity,
                   current |-> IF "current" \in DOMAIN response
                               THEN response.current
                               ELSE StatusWords.current]
                  @@ StatusWords @@ @]
    IN  IF s1.bms.external_errors # 0
        THEN BaseState_set_error("bms", s1, ERROR_EXTERNAL)
        ELSE BaseState_reset_error("bms", s1, ERROR_EXTERNAL)

\* the assignments of a parse that raises at a descriptor
BMSState_parse_raises(s, response) ==
    [s EXCEPT !.bms.cells = response.cells,
              !.bms.external_errors =
                  IF response.ext = NULL THEN @ ELSE response.ext]

\* index of the first cell at which the loop over the cells breaks, 0 if none
FirstExceeded(cells) ==
    LET ex == {i \in DOMAIN cells :
                  /\ cells[i] # NULL
                  /\ \/ cells[i] < TurnOffMinVoltage
                     \/ cells[i] > TurnOffMaxVoltage}
    IN  IF ex = {} THEN 0 ELSE CHOOSE i \in ex : \A j \in ex : i <= j

min_voltage_exceeded(cells) ==
    /\ FirstExceeded(cells) # 0
    /\ cells[FirstExceeded(cells)] < TurnOffMinVoltage

max_voltage_exceeded(cells) ==
    /\ FirstExceeded(cells) # 0
    /\ ~(cells[FirstExceeded(cells)] < TurnOffMinVoltage)
    /\ cells[FirstExceeded(cells)] > TurnOffMaxVoltage

BMSState_reset_mcu_consumption_keeps(s) == s

BMSState_reset_mcu_consumption(s) == [s EXCEPT !.bms.mcu_consumed = 0]

\* the statement after trigger is not reached when a subscriber has raised
ResetUnlessRaised(s) ==
    IF s.raised THEN s ELSE BMSState_reset_mcu_consumption(s)

BatteryCharged(s) ==
    ResetUnlessRaised(BaseState_trigger("bms", s, "BATTERY_CHARGED"))

BatteryDischarged(s) == BaseState_trigger("bms", s, "BATTERY_DISCHARGED")

\* the two tests that end check_voltage_thresholds
OnMaxVoltage(s, reached) == IF reached THEN BatteryCharged(s) ELSE s

OnMinVoltage(s, reached) ==
    IF reached /\ ~s.raised THEN BatteryDischarged(s) ELSE s

BMSController_check_voltage_thresholds(s) ==
    LET mn == min_voltage_exceeded(s.bms.cells)
        mx == max_voltage_exceeded(s.bms.cells)
        s1 == [s EXCEPT !.bms.turn_off_confirmations =
                            IF mn \/ mx THEN @ + 1 ELSE 0]
        threshold_triggerred ==
            s1.bms.turn_off_confirmations >= TURN_OFF_MAX_CONFIRMATIONS
    IN  OnMinVoltage(OnMaxVoltage(s1, mx /\ threshold_triggerred),
                     mn /\ threshold_triggerred)

(***************************************************************************)
(* The accounting of the power that the controller and the BMS draw        *)
(* themselves.  mcu_consumed is held in microampere-hours, powers in       *)
(* milliwatts and the pack voltage in the 0.01 V units of the voltage      *)
(* word, so that the quotients of the source are integer quotients here.   *)
(* The accounting is followed where s.accounting is set; elsewhere         *)
(* mcu_consumed and mcu_power_ticks keep the values of the constructor.    *)
(***************************************************************************)
MCU_POWER == 1500

BMS_POWER == 900

USB_POWER == 170

MCU_POWER_FREQUENCY == 5

\* 3.2 * 4 * 100
NominalVoltage == 1280

\* get_soc, with math.floor of the consumed percentage; it is called where
\* battery_capacity is not 0
BMSState_get_soc(s) ==
    IF s.bms.soc = NULL \/ s.bms.battery_capacity = NULL
    THEN NULL
    ELSE s.bms.soc
         - (100 * s.bms.mcu_consumed) \div (1000000 * s.bms.battery_capacity)

\* current & (1 << 15)
BMSState_get_direction(s) == ((s.bms.current \div 32768) % 2) * 32768

\* watts, truncated by int()
BMSState_get_power(s) ==
    IF s.bms.current \in {NULL, 0} \/ s.bms.voltage \in {NULL, 0}
    THEN 0
    ELSE ((s.bms.current % 32768) * s.bms.voltage) \div 10000

\* ((period / 3600) * power) / (voltage / 100), in microampere-hours
AmpereHours(period, power, voltage) ==
    (period * power * 1000) \div (36 * voltage)

BMSState_increase_mcu_consumption(s, period, power, voltage) ==
    [s EXCEPT !.bms.mcu_consumed = @ + AmpereHours(period, power, voltage)]

BMSState_decrease_mcu_consumption(s, period, power, voltage) ==
    [s EXCEPT !.bms.mcu_consumed =
                  IF @ - AmpereHours(period, power, voltage) < 0
                  THEN 0
                  ELSE @ - AmpereHours(period, power, voltage)]

\* the end of update_mcu_consumption on a tick that accounts
McuConsumptionSaved(s) ==
    ProfileController_set(s, PROFILE_KEY_MCU_POWER,
                          PyFloat(<<s.bms.mcu_consumed>>))

BMSController_update_mcu_consumption(s) ==
    IF ~s.accounting THEN s
    ELSE
    LET known == BMSState_get_soc(s) \notin {NULL, 0}
        direction == IF known THEN BMSState_get_direction(s) ELSE 0
        power == MCU_POWER + USB_POWER + (IF known THEN BMS_POWER ELSE 0)
        voltage == IF known THEN s.bms.voltage ELSE NominalVoltage
        ticks == s.bms.mcu_power_ticks + 1
        period == ticks * STATE_FREQUENCY
        s1 == [s EXCEPT !.bms.mcu_power_ticks = 0]
    IN  IF ticks < MCU_POWER_FREQUENCY
        THEN [s EXCEPT !.bms.mcu_power_ticks = ticks]
        ELSE IF direction # 0
             THEN McuConsumptionSaved(
                      BMSState_decrease_mcu_consumption(
                          s1, period, 1000 * BMSState_get_power(s) - power,
                          voltage))
             ELSE McuConsumptionSaved(
                      BMSState_increase_mcu_consumption(
                          s1, period, power, voltage))

\* get_soc divides by battery_capacity
BMSState_get_soc_raises(s) ==
    /\ s.bms.soc # NULL
    /\ s.bms.battery_capacity # NULL
    /\ s.bms.battery_capacity = 0

\* the end of request_status after no reply or an exception
StatusFailed(s) ==
    BaseState_set_error("bms", BMSState_clear(s), ERROR_NO_RESPONSE)

\* the arguments of the logger.info call that ends the try block are
\* evaluated inside it: get_soc may raise after reset_error has run
StatusLogged(s) == IF BMSState_get_soc_raises(s) THEN StatusFailed(s) ELSE s

\* the end of the try block, and the except branch when a subscriber called
\* from check_voltage_thresholds has raised
StatusChecked(s) ==
    IF s.raised
    THEN StatusFailed([s EXCEPT !.raised = FALSE])
    ELSE StatusLogged(BaseState_reset_error("bms", s, ERROR_NO_RESPONSE))

\* request_status after its first statement
BMSController_query_status(s, response) ==
    IF response.kind = "ok"
    THEN StatusChecked(
             BMSController_check_voltage_thresholds(
                 BMSState_parse(Log(s, "tx", "STATUS_REQUEST"), response)))
    ELSE IF response.kind = "bad"
         THEN StatusFailed(
                  BMSState_parse_raises(Log(s, "tx", "STATUS_REQUEST"),
                                        response))
         ELSE StatusFailed(Log(s, "tx", "STATUS_REQUEST"))

BMSController_request_status(s, response) ==
    BMSController_query_status(BMSController_update_mcu_consumption(s),
                               response)

\* one iteration of the loop of BMSController.run
BMSController_run(s, response) ==
    BaseState_snapshot("bms", BMSController_request_status(s, response))

(***************************************************************************)
(* The inverter task (core/drivers/inverter.py).  A reply of the inverter  *)
(* is a record: kind "empty", "noframe" (bytes without both delimiters),   *)
(* "short" (delimited, not 17 bytes) or "frame" (17 bytes; val selects the *)
(* payload, ext is the device error byte, checksum_ok the checksum test).  *)
(***************************************************************************)
InverterReplies ==
    {[kind |-> k, val |-> 1, ext |-> 0, checksum_ok |-> FALSE] :
         k \in {"empty", "noframe", "short"}}
    \cup {[kind |-> "frame", val |-> v, ext |-> e, checksum_ok |-> c] :
              v \in {1, 2}, e \in {0, 8}, c \in BOOLEAN}
    \cup {[kind |-> "notbcd", val |-> v, ext |-> 0, checksum_ok |-> FALSE] :
              v \in {1, 2}}

\* the replies explored together with the commands and the BMS
FabricInverterReplies ==
    {r \in InverterReplies :
        \/ r.kind = "empty"
        \/ r.kind = "frame" /\ r.val = 1 /\ r.ext = 0 /\ r.checksum_ok}

\* int(f"{checksum:x}") raises ValueError when a hexadecimal digit of the
\* checksum byte is above 9; the fields have been assigned by then
InverterState_parse_raises(frame) == frame.kind = "notbcd"

InverterState_parse(s, frame) ==
    IF frame.kind \notin {"frame", "notbcd"}
    THEN s
    ELSE [s EXCEPT !.inverter.ac = 220,
                   !.inverter.power = 100 * frame.val,
                   !.inverter.dc = 13,
                   !.inverter.temperature = 30,
                   !.inverter.external_errors = frame.ext,
                   !.inverter.level = 5,
                   !.inverter.valid =
                       IF frame.kind = "frame" THEN frame.checksum_ok ELSE @]

InverterState_parse_buffer(s, buffer) ==
    IF buffer.kind = "empty"
    THEN BaseState_reset_error("inverter",
             BaseState_set_error("inverter", s, ERROR_NO_RESPONSE),
             ERROR_BAD_RESPONSE)
    ELSE LET s1 == BaseState_reset_error("inverter", s, ERROR_NO_RESPONSE)
             s2 == IF buffer.kind \in {"short", "frame", "notbcd"}
                   THEN InverterState_parse(s1, buffer)
                   ELSE s1
         IN  IF InverterState_parse_raises(buffer)
             THEN s2
             ELSE IF s2.inverter.valid
                  THEN LET s3 == BaseState_reset_error("inverter", s2,
                                                       ERROR_BAD_RESPONSE)
                       IN  IF s3.inverter.external_errors # 0
                           THEN BaseState_set_error("inverter", s3,
                                                    ERROR_EXTERNAL)
                           ELSE BaseState_reset_error("inverter", s3,
                                                      ERROR_EXTERNAL)
                  ELSE BaseState_set_error("inverter", s2, ERROR_BAD_RESPONSE)

\* an exception raised by parse leaves parse_buffer and read_status and is
\* caught by the caller, InverterController.run
InverterController_read_status(s, buffer) ==
    InverterState_parse_buffer(Log(s, "uart.write", "INVERTER_STATUS_REQUEST"),
                               buffer)

\* the body of the loop after the one-off bootstrapping sleep
InverterController_run_body(s, buffer) ==
    BaseState_snapshot("inverter", InverterController_read_status(s, buffer))

(***************************************************************************)
(* The PSU task (core/drivers/psu.py).  A sampled buffer is a record: kind *)
(* "none" (no 0x49 0x34 header, or fewer than 22 bytes after it) or        *)
(* "frame", a complete frame with its two little-endian power words, the   *)
(* power CRC byte, the state, unknown, ac and temperature bytes and the    *)
(* data CRC byte; the seven reserved bytes are 0.  power_crc_ok and        *)
(* data_crc_ok record how the frame was built.                             *)
(***************************************************************************)
RECURSIVE SumBytes(_)
SumBytes(data) == IF data = <<>> THEN 0 ELSE Head(data) + SumBytes(Tail(data))

CrcModulus == 256

PSUState_crc(data) == SumBytes(data) % CrcModulus

\* the two bytes of struct "<H"
WordBytes(v) == <<v % 256, v \div 256>>

PowerBytes(frame) == WordBytes(frame.power1) \o WordBytes(frame.power2)

\* frame[9:21]: unknown, ac, t1, t2, t3 and the reserved bytes
DataBytes(frame) ==
    <<frame.unknown, frame.ac, frame.t1, frame.t2, frame.t3,
      0, 0, 0, 0, 0, 0, 0>>

PsuFrameWords ==
    {[kind |-> "frame", power1 |-> 300 * v, power2 |-> 10 * v, state |-> 1,
      unknown |-> 0, ac |-> 230, t1 |-> 30 + v, t2 |-> 32, t3 |-> 33] :
         v \in {1, 2}}

PsuBuffers ==
    {[kind |-> "none", power1 |-> 0, power2 |-> 0, state |-> 0, unknown |-> 0,
      ac |-> 0, t1 |-> 0, t2 |-> 0, t3 |-> 0, power_crc |-> 0, data_crc |-> 0,
      power_crc_ok |-> FALSE, data_crc_ok |-> FALSE]}
    \cup {w @@ [power_crc |-> (PSUState_crc(PowerBytes(w)) + dp) % CrcModulus,
                data_crc |-> (PSUState_crc(DataBytes(w)) + dd) % CrcModulus,
                power_crc_ok |-> dp = 0, data_crc_ok |-> dd = 0] :
              w \in PsuFrameWords, dp \in {0, 1}, dd \in {0, 255}}

PSUState_parse_assignsFirst(s, frame) ==
    LET s1 == [s EXCEPT !.psu.power1 = frame.power1,
                        !.psu.power2 = frame.power2,
                        !.psu.ac = frame.ac,
                        !.psu.state = frame.state,
                        !.psu.t1 = frame.t1,
                        !.psu.t2 = frame.t2,
                        !.psu.t3 = frame.t3]
    IN  IF \/ PSUState_crc(PowerBytes(frame)) # frame.power_crc
           \/ PSUState_crc(DataBytes(frame)) # frame.data_crc
        THEN BaseState_set_error("psu", s1, ERROR_BAD_RESPONSE)
        ELSE BaseState_reset_error("psu", s1, ERROR_BAD_RESPONSE)

\* the frame handed to parse is complete and starts with the header
PSUState_parse(s, frame) ==
    IF PSUState_crc(PowerBytes(frame)) # frame.power_crc
    THEN BaseState_set_error("psu", s, ERROR_BAD_RESPONSE)
    ELSE IF PSUState_crc(DataBytes(frame)) # frame.data_crc
         THEN BaseState_set_error("psu", s, ERROR_BAD_RESPONSE)
         ELSE LET s1 == BaseState_reset_error("psu", s, ERROR_BAD_RESPONSE)
              IN  [s1 EXCEPT !.psu.power1 = frame.power1,
                             !.psu.power2 = frame.power2,
                             !.psu.ac = frame.ac,
                             !.psu.state = frame.state,
                             !.psu.t1 = frame.t1,
                             !.psu.t2 = frame.t2,
                             !.psu.t3 = frame.t3]

PSUState_parse_buffer(s, buffer) ==
    IF buffer.kind = "none" THEN s ELSE PSUState_parse(s, buffer)

\* one iteration of the loop with the PSU active: the controller is built
\* without a fan tachometer, and the call of measure() on it raises, which
\* ends the task and with it the scheduler
PowerSupplyController_run(s, buffer) ==
    LET s1 == PSUState_parse_buffer(Log(s, "uart.sample", "PSU"), buffer)
    IN  [s1 EXCEPT !.halted = TRUE]

(***************************************************************************)
(* The instruction queue (core/lib/queue.py).  An instruction is a record  *)
(* of the callback's name and the tuple of its arguments; n numbers the    *)
(* add() calls and is not part of the program.                             *)
(***************************************************************************)
Queue_put_nowait(items, val) == Append(items, val)

Queue_get_lifo(items) ==
    [item |-> items[Len(items)], rest |-> SubSeq(items, 1, Len(items) - 1)]

\* _get: self._queue.pop(0)
Queue_get(items) == [item |-> Head(items), rest |-> Tail(items)]

InstructionsQueue_add(qq, fn, args) ==
    [qq EXCEPT !.queue = Queue_put_nowait(@, [fn |-> fn, args |-> args,
                                              n |-> qq.nadded + 1]),
               !.jncnt = @ + 1,
               !.nadded = @ + 1]

\* instruction(*args, **kwargs) in InstructionsQueue.run; the history, the
\* profile, the ATS and the firmware update have no state in this model
Instruction_call(fn, args, s) ==
    CASE fn = "psu.on" -> PowerSupplyController_on(s)
      [] fn = "psu.off" -> PowerSupplyController_off(s)
      [] fn = "psu.set_current" ->
             PowerSupplyController_set_current(s, args[1])
      [] fn = "inverter.on" -> InverterController_on(s)
      [] fn = "inverter.off" -> InverterController_off(s)
      [] OTHER -> Log(s, "call", fn)

(***************************************************************************)
(* The write handler of the BLE command characteristic                     *)
(* (core/drivers/ble.py).                                                  *)
(***************************************************************************)
COMMAND_PULL_HISTORY == 1
COMMAND_PSU_ENABLE == 16
COMMAND_PSU_DISABLE == 17
COMMAND_PSU_CURRENT == 18
COMMAND_INVERTER_ENABLE == 32
COMMAND_INVERTER_DISABLE == 33
COMMAND_ATS_ENABLE == 48
COMMAND_ATS_DISABLE == 49
COMMAND_CONF_SET_KEY == 64
COMMAND_CONF_PROFILE == 65
COMMAND_UPDATE_FIRMWARE == 80
COMMAND_REBOOT == 240
COMMAND_START_LOG == 96
COMMAND_STOP_LOG == 97

ValueBytes_fromByte1(data) == SubSeq(data, 2, Len(data))

\* data[2:] of a write
ValueBytes(data) == SubSeq(data, 3, Len(data))

\* struct.unpack_from(">B", data, 0) raises when the write is empty, and
\* struct.unpack_from(">B", data, 1) when it has one byte
OnWriteRaises(data) ==
    \/ Len(data) = 0
    \/ /\ data[1] \in {COMMAND_PSU_CURRENT, COMMAND_CONF_SET_KEY}
       /\ Len(data) < 2

\* the instructions on_write_state adds for the subcommand data[0] of a
\* write of at least one byte, in order, each with its arguments
Enqueued(subcommand, data) ==
    CASE subcommand = COMMAND_PULL_HISTORY ->
             << <<"inverter.pull_history", <<>> >>,
                <<"bms.pull_history", <<>> >>,
                <<"psu.pull_history", <<>> >> >>
      [] subcommand = COMMAND_PSU_ENABLE -> << <<"psu.on", <<>> >> >>
      [] subcommand = COMMAND_PSU_DISABLE -> << <<"psu.off", <<>> >> >>
      [] subcommand = COMMAND_PSU_CURRENT /\ ~OnWriteRaises(data) ->
             << <<"psu.set_current", <<data[2]>> >> >>
      [] subcommand = COMMAND_INVERTER_ENABLE -> << <<"inverter.on", <<>> >> >>
      [] subcommand = COMMAND_INVERTER_DISABLE ->
             << <<"inverter.off", <<>> >> >>
      [] subcommand = COMMAND_ATS_ENABLE ->
             << <<"profile.set", <<PROFILE_KEY_ATS, <<1>> >> >>,
                <<"ats.enable", <<>> >> >>
      [] subcommand = COMMAND_ATS_DISABLE ->
             << <<"profile.set", <<PROFILE_KEY_ATS, <<0>> >> >>,
                <<"ats.disable", <<>> >> >>
      [] subcommand = COMMAND_CONF_SET_KEY /\ ~OnWriteRaises(data) ->
             << <<"profile.set", <<data[2], ValueBytes(data)>> >> >>
      [] subcommand = COMMAND_UPDATE_FIRMWARE -> << <<"ota.update", <<>> >> >>
      [] OTHER -> <<>>

\* what on_write_state calls itself for a subcommand
Direct(subcommand) ==
    CASE subcommand = COMMAND_REBOOT -> "machine.reset"
      [] subcommand = COMMAND_START_LOG -> "logger.start_ble_forwarding"
      [] subcommand = COMMAND_STOP_LOG -> "logger.stop_ble_forwarding"
      [] OTHER -> "none"

RECURSIVE AddAll(_, _)
AddAll(qq, instructions) ==
    IF instructions = <<>>
    THEN qq
    ELSE AddAll(InstructionsQueue_add(qq, Head(instructions)[1],
                                      Head(instructions)[2]),
                Tail(instructions))

(***************************************************************************)
(* The state after construction (main() of core/app.py up to the start of  *)
(* the tasks).  now is the clock (time.time(), seconds since boot);        *)
(* inverter.on_at is a history field, the time of the last inverter.on;    *)
(* inverter.sleep_until is the time at which the bootstrapping sleep of    *)
(* the inverter task ends.  The PSU starts with ERROR_PIN set: its power button is     *)
(* built with a keyword the button controller does not accept, and the     *)
(* constructor records the failure.                                        *)
(***************************************************************************)
InitPsu ==
    [active |-> FALSE, power_gate_pin |-> 0,
     internal_errors |-> {ERROR_PIN}, external_errors |-> 0,
     state_modified |-> 0,
     current_channel |-> CURRENT_CHANNEL,
     current_a_pin |-> CURRENT_CHANNEL % 2,
     current_b_pin |-> (CURRENT_CHANNEL \div 2) % 2,
     rpm |-> NULL, power1 |-> NULL, power2 |-> NULL, ac |-> NULL,
     t1 |-> NULL, t2 |-> NULL, t3 |-> NULL, state |-> NULL, unknown |-> NULL,
     turn_off_confirmations |-> 0]

InitInverter ==
    [active |-> FALSE, power_gate_pin |-> 0, bootstrapping |-> FALSE,
     internal_errors |-> {}, external_errors |-> 0, valid |-> FALSE,
     state_modified |-> 0, on_at |-> 0, sleep_until |-> 0,
     ac |-> NULL, power |-> NULL, dc |-> NULL, temperature |-> NULL,
     level |-> NULL, rpm_a |-> NULL, rpm_b |-> NULL, exception |-> NULL]

InitBms ==
    [f \in BmsClearedFields |-> NULL]
    @@ [active |-> FALSE, internal_errors |-> {}, external_errors |-> 0,
        state_modified |-> 0, cells |-> NoCells, state |-> NULL,
        mcu_consumed |-> 0, turn_off_confirmations |-> 0,
        exception |-> NULL, mcu_power_ticks |-> 0]

\* HistoricalData.__init__: an empty deque of length HISTORY_SIZE; pushed and
\* seed are history variables, the number of push calls and the generator of
\* the pushed points
InitHistoricalData ==
    [chart_type |-> 0, data_type |-> 0, length |-> HISTORY_SIZE,
     buffer |-> <<>>, pushed |-> 0, seed |-> 1]

InitProbe ==
    [active |-> FALSE, internal_errors |-> {}, external_errors |-> 0,
     state_modified |-> 0]

(***************************************************************************)
(* ATSController (core/drivers/ats.py).  nc_pin and no_pin are the levels  *)
(* of the two inputs, nc_irq and no_irq tell whether _check_state is       *)
(* installed as the handler of the rising edge of the pin.  The three      *)
(* modes are imported from const; they are taken to be distinct.           *)
(***************************************************************************)
ATS_MODE_NONE == "NONE"

ATS_MODE_CITY == "CITY"

ATS_MODE_BATTERY == "BATTERY"

InitAts ==
    [mode |-> ATS_MODE_NONE, nc_pin |-> 0, no_pin |-> 0,
     nc_irq |-> FALSE, no_irq |-> FALSE,
     active |-> FALSE, internal_errors |-> {}, external_errors |-> 0,
     state_modified |-> 0, exception |-> NULL]

\* the mode that _check_state derives from the two levels
ATSController_mode(nc_state, no_state) ==
    IF nc_state = 0 /\ no_state = 1
    THEN ATS_MODE_BATTERY
    ELSE IF nc_state = 1 /\ no_state = 0
         THEN ATS_MODE_CITY
         ELSE ATS_MODE_NONE

ATSController_check_state_always(s) ==
    BaseState_notify("ats",
        [s EXCEPT !.ats.mode = ATSController_mode(s.ats.nc_pin, s.ats.no_pin)])

ATSController_check_state(s) ==
    IF ATSController_mode(s.ats.nc_pin, s.ats.no_pin) # s.ats.mode
    THEN BaseState_notify("ats",
             [s EXCEPT !.ats.mode =
                           ATSController_mode(s.ats.nc_pin, s.ats.no_pin)])
    ELSE s

ATSController_enable(s) ==
    [s EXCEPT !.ats.nc_irq = TRUE, !.ats.no_irq = TRUE]

ATSController_disable(s) ==
    [s EXCEPT !.ats.nc_irq = FALSE, !.ats.no_irq = FALSE,
              !.ats.mode = ATS_MODE_NONE]

\* ATSController.__init__ with enabled = profile.get(PROFILE_KEY_ATS, False)
ATSConstructed(s) ==
    IF ProfileController_get(s, PROFILE_KEY_ATS, PyBool(FALSE)).v
           \notin {<<>>, <<0>>}
    THEN ATSController_enable(s)
    ELSE s

\* the state after construction on a file system with the given profile
\* file: the profile is loaded first and the OTA controller is built with
\* the network name and password it holds
OTAConstructed(s) ==
    [s EXCEPT
       !.profile.ota_ssid = ProfileState_get(s, PROFILE_KEY_WIFI_SSID),
       !.profile.ota_password =
           ProfileState_get(s, PROFILE_KEY_WIFI_PASSWORD)]

\* BMSController.__init__ with the profile: a numeric value of the profile is
\* a tuple of one number
BMSConstructed(s) ==
    [s EXCEPT !.bms.mcu_consumed =
                  ProfileController_get(s, PROFILE_KEY_MCU_POWER,
                                        PyInt(0)).v[1]]

Boot(exists, file) ==
    OTAConstructed(BMSConstructed(ATSConstructed(ProfileController_init(
        [psu |-> InitPsu, inverter |-> InitInverter, bms |-> InitBms,
         uart |-> "none", charge_frame |-> "NONE",
         discharge_frame |-> "NONE",
         inverter_pc |-> "loop", bms_pc |-> "start", halted |-> FALSE,
         ble_forwarding |-> FALSE, now |-> 0, probe |-> InitProbe,
         log |-> <<>>, replies |-> <<>>, notified |-> {},
         fault |-> "none", raised |-> FALSE, accounting |-> FALSE,
         history |-> InitHistoricalData,
         ats |-> InitAts,
         profile |-> [InitProfile EXCEPT !.exists = exists,
                                         !.file = file]]))))

\* the first boot of a device: there is no profile file
InitSys == Boot(FALSE, <<>>)

(***************************************************************************)
(* History variables.  obs describes the handler that ran last: its name,  *)
(* the context it ran in and the state it started from.  stream describes  *)
(* the successfully parsed BMS frames: the current run of frames above the *)
(* maximum (below the minimum) and the events fired in it, the run that    *)
(* ended last, and the last three frames.                                  *)
(***************************************************************************)
AboveMax(cells) ==
    \E i \in DOMAIN cells : cells[i] # NULL /\ cells[i] > TurnOffMaxVoltage

BelowMin(cells) ==
    \E i \in DOMAIN cells : cells[i] # NULL /\ cells[i] < TurnOffMinVoltage

InitObs ==
    [op |-> "boot", ctx |-> "boot",
     pre_psu_active |-> FALSE, pre_inverter_active |-> FALSE,
     pre_psu_null |-> TRUE, pre_inverter_null |-> TRUE,
     pre_bms_modified |-> 0,
     pre_probe |-> InitProbe, arg |-> NULL, reply |-> "none",
     pre_inverter |-> InitInverter, pre_psu |-> InitPsu, notified |-> {},
     handle |-> "none", data |-> <<>>, chunks |-> <<>>,
     fault |-> "none", sound |-> InitBms, pre_ats |-> InitAts]

Observe(op, ctx) ==
    [op |-> op, ctx |-> ctx,
     pre_psu_active |-> sys.psu.active,
     pre_inverter_active |-> sys.inverter.active,
     pre_psu_null |-> PsuTelemetryNull(sys),
     pre_inverter_null |-> InverterTelemetryNull(sys),
     pre_bms_modified |-> sys.bms.state_modified,
     pre_probe |-> sys.probe, arg |-> NULL, reply |-> "none",
     pre_inverter |-> InitInverter, pre_psu |-> InitPsu, notified |-> {},
     handle |-> "none", data |-> <<>>, chunks |-> <<>>,
     fault |-> "none", sound |-> InitBms, pre_ats |-> InitAts]

Fired(s) == {s.log[i].what : i \in {j \in DOMAIN s.log : s.log[j].ev = "fire"}}

Min2(a, b) == IF a < b THEN a ELSE b

Last3(h) == IF Len(h) > 3 THEN SubSeq(h, Len(h) - 2, Len(h)) ELSE h

NoRun == [len |-> 0, fired |-> 0, normal |-> FALSE]

InitStream ==
    [fired |-> {},
     run_max |-> 0, charged_in_run |-> 0, ended_max |-> NoRun,
     run_min |-> 0, discharged_in_run |-> 0, ended_min |-> NoRun,
     hist |-> <<>>]

\* response was exchanged and s is the state the exchange ended in; an
\* exchange that does not end in a successful parse is not part of the stream
ObserveFrame(response, s) ==
    LET mx == AboveMax(response.cells)
        mn == BelowMin(response.cells)
        ch == IF "BATTERY_CHARGED" \in Fired(s) THEN 1 ELSE 0
        di == IF "BATTERY_DISCHARGED" \in Fired(s) THEN 1 ELSE 0
    IN  IF response.kind # "ok"
        THEN [stream EXCEPT !.fired = {}]
        ELSE [fired |-> Fired(s),
              run_max |-> IF mx THEN Min2(stream.run_max + 1, MaxRun) ELSE 0,
              charged_in_run |->
                  IF mx THEN Min2(stream.charged_in_run + ch, MaxRun) ELSE 0,
              ended_max |->
                  IF mx THEN NoRun
                  ELSE [len |-> stream.run_max,
                        fired |-> stream.charged_in_run,
                        normal |-> ~mn],
              run_min |-> IF mn THEN Min2(stream.run_min + 1, MaxRun) ELSE 0,
              discharged_in_run |->
                  IF mn THEN Min2(stream.discharged_in_run + di, MaxRun)
                  ELSE 0,
              ended_min |->
                  IF mn THEN NoRun
                  ELSE [len |-> stream.run_min,
                        fired |-> stream.discharged_in_run,
                        normal |-> ~mx],
              hist |-> Last3(Append(stream.hist, [mx |-> mx, mn |-> mn]))]

InitQ == [queue |-> <<>>, jncnt |-> 0, pc |-> "get", cur |-> <<>>,
          nadded |-> 0, ndone |-> 0]

Init == sys = InitSys /\ obs = InitObs /\ stream = InitStream /\ q = InitQ

(***************************************************************************)
(* Actions.  Begin(r) is the state a handler starts from, with the replies *)
(* the BMS will give to the modify frames written while it runs; End(s)    *)
(* is the state it leaves.                                                 *)
(***************************************************************************)
\* the replies of the BMS to the modify frames of a handler that writes at
\* most n of them: a handler that writes more than it was given cannot be
\* evaluated
RepliesTo(n) == [1..Min2(n, MaxQueries) -> BOOLEAN]

Replies == RepliesTo(MaxQueries)

\* the modify frames an instruction writes at most: on() switches the other
\* component off (one frame) and enables its own direction (one frame),
\* off() disables its own direction
QueriesOf(fn) ==
    CASE fn \in {"psu.on", "inverter.on"} -> 2
      [] fn \in {"psu.off", "inverter.off"} -> 1
      [] OTHER -> 0

Channels == 0..1

Begin(r) == [sys EXCEPT !.log = <<>>, !.replies = r]

\* the handler has returned: what it pushed is kept by the action that
\* observes it, in obs
End(s) ==
    [s EXCEPT !.replies = <<>>, !.notified = {}, !.fault = "none",
              !.raised = FALSE]

\* the commands as the command task executes them
ExecPsuOn ==
    /\ ~sys.halted
    /\ \E r \in RepliesTo(QueriesOf("psu.on")) :
          sys' = End(PowerSupplyController_on(Begin(r)))
    /\ obs' = Observe("psu.on", "command_task")
    /\ UNCHANGED <<stream, q>>

ExecPsuOff ==
    /\ ~sys.halted
    /\ \E r \in RepliesTo(QueriesOf("psu.off")) :
          sys' = End(PowerSupplyController_off(Begin(r)))
    /\ obs' = Observe("psu.off", "command_task")
    /\ UNCHANGED <<stream, q>>

ExecPsuSetCurrent ==
    /\ ~sys.halted
    /\ \E c \in Channels :
          sys' = End(PowerSupplyController_set_current(Begin(<<>>), c))
    /\ obs' = Observe("psu.set_current", "command_task")
    /\ UNCHANGED <<stream, q>>

ExecInverterOn ==
    /\ ~sys.halted
    /\ \E r \in RepliesTo(QueriesOf("inverter.on")) :
          sys' = End(InverterController_on(Begin(r)))
    /\ obs' = Observe("inverter.on", "command_task")
    /\ UNCHANGED <<stream, q>>

ExecInverterOff ==
    /\ ~sys.halted
    /\ \E r \in RepliesTo(QueriesOf("inverter.off")) :
          sys' = End(InverterController_off(Begin(r)))
    /\ obs' = Observe("inverter.off", "command_task")
    /\ UNCHANGED <<stream, q>>

\* long press of the inverter power button: the one-shot timer callback
\* ButtonController.trigger calls on_power_trigger
ButtonLongPress ==
    /\ \E r \in RepliesTo(QueriesOf(IF sys.inverter.active
                                  THEN "inverter.off" ELSE "inverter.on")) :
          sys' = End(InverterController_on_power_trigger(Begin(r)))
    /\ obs' = Observe("inverter.on_power_trigger", "timer_callback")
    /\ UNCHANGED <<stream, q>>

\* BMSController.run: the status exchange before the loop (first = TRUE) or
\* one iteration of the loop
BmsExchange(response, r, first) ==
    /\ ~sys.halted
    /\ sys.bms_pc = (IF first THEN "start" ELSE "loop")
    /\ \E s \in {IF first
                  THEN [BMSController_request_status(Begin(r), response)
                            EXCEPT !.bms_pc = "loop"]
                  ELSE BMSController_run(Begin(r), response)} :
          /\ s.bms.turn_off_confirmations <= MaxConfirmations
          /\ sys' = End(s)
    /\ obs' = [Observe("bms.run", "bms_task") EXCEPT !.reply = response.kind]
    /\ UNCHANGED q

BmsStart ==
    \E response \in FabricStatusReplies, r \in RepliesTo(1) :
        /\ BmsExchange(response, r, TRUE)
        /\ UNCHANGED stream

BmsTick ==
    \E response \in FabricStatusReplies, r \in RepliesTo(1) :
        /\ BmsExchange(response, r, FALSE)
        /\ UNCHANGED stream

\* InverterController.run: the top of the loop with the inverter active
InverterTick ==
    /\ ~sys.halted
    /\ sys.inverter_pc = "loop"
    /\ sys.inverter.active
    /\ IF sys.inverter.bootstrapping
       THEN sys' = End([Begin(<<>>) EXCEPT
                           !.inverter_pc = "bootstrapping",
                           !.inverter.sleep_until = sys.now + bootstrapping_delay])
       ELSE \E buffer \in FabricInverterReplies :
               sys' = End(InverterController_run_body(Begin(<<>>), buffer))
    /\ obs' = Observe("inverter.run", "inverter_task")
    /\ UNCHANGED <<stream, q>>

\* InverterController.run: the bootstrapping sleep has elapsed
InverterSettled ==
    /\ ~sys.halted
    /\ sys.inverter_pc = "bootstrapping"
    /\ \E buffer \in FabricInverterReplies :
          sys' = End(InverterController_run_body(
                         [Begin(<<>>) EXCEPT !.inverter.bootstrapping = FALSE,
                                             !.inverter_pc = "loop"],
                         buffer))
    /\ obs' = Observe("inverter.run", "inverter_task")
    /\ UNCHANGED <<stream, q>>

\* PowerSupplyController.run: one iteration of the loop with the PSU active
PsuTick ==
    /\ ~sys.halted
    /\ sys.psu.active
    /\ \E buffer \in PsuBuffers :
          sys' = End(PowerSupplyController_run(Begin(<<>>), buffer))
    /\ obs' = Observe("psu.run", "psu_task")
    /\ UNCHANGED <<stream, q>>

Next ==
    \/ ExecPsuOn
    \/ ExecPsuOff
    \/ ExecPsuSetCurrent
    \/ ExecInverterOn
    \/ ExecInverterOff
    \/ ButtonLongPress
    \/ BmsStart
    \/ BmsTick
    \/ InverterTick
    \/ InverterSettled
    \/ PsuTick

Spec == Init /\ [][Next]_vars

(***************************************************************************)
(* The entry points of external actions with the instruction queue: a      *)
(* write to the BLE command characteristic, the long press of the inverter *)
(* power button, and the runner task of the queue.                         *)
(***************************************************************************)
\* the subcommands explored: one of each kind of handling (one instruction,
\* an instruction with an argument, two instructions, none, and the three
\* that on_write_state acts on itself)
WriteOpcodes ==
    {COMMAND_PSU_ENABLE, COMMAND_PSU_CURRENT, COMMAND_INVERTER_ENABLE,
     COMMAND_INVERTER_DISABLE, COMMAND_ATS_ENABLE, COMMAND_CONF_PROFILE,
     COMMAND_REBOOT, COMMAND_START_LOG, COMMAND_STOP_LOG}

\* the writes explored here: a subcommand alone, or with a channel
QueueWrites ==
    {<<subcommand>> : subcommand \in WriteOpcodes \ {COMMAND_PSU_CURRENT}}
    \cup {<<COMMAND_PSU_CURRENT, level>> : level \in Channels}

\* BLEServerController.on_write_state, called by the BLE stack with the
\* handle written to; data is what gatts_read returns for it.  A write to
\* another handle returns early and a write that raises leaves the handler
\* before anything is added; machine.reset restarts the firmware, which
\* constructs everything anew
OnWriteState(handle, data) ==
    LET decoded == handle = "command" /\ ~OnWriteRaises(data)
        direct == IF decoded THEN Direct(data[1]) ELSE "none"
        adds == IF decoded THEN Enqueued(data[1], data) ELSE <<>>
    IN  /\ q.nadded + Len(adds) <= MaxAdds
        /\ q' = IF direct = "machine.reset" THEN InitQ ELSE AddAll(q, adds)
        /\ sys' = CASE direct = "machine.reset" -> InitSys
                    [] direct = "logger.start_ble_forwarding" ->
                           [sys EXCEPT !.log = <<>>,
                                       !.ble_forwarding = TRUE]
                    [] direct = "logger.stop_ble_forwarding" ->
                           [sys EXCEPT !.log = <<>>,
                                       !.ble_forwarding = FALSE]
                    [] OTHER -> [sys EXCEPT !.log = <<>>]
        /\ obs' = [Observe(IF direct = "none" THEN "instructions.add"
                           ELSE direct,
                           "transport_callback")
                       EXCEPT !.handle = handle, !.data = data]
        /\ UNCHANGED stream

BleWrite == \E data \in QueueWrites : OnWriteState("command", data)

\* InstructionsQueue.run: get() returns the head of a queue that is not empty
RunnerGet ==
    /\ ~sys.halted
    /\ q.pc = "get"
    /\ q.queue # <<>>
    /\ q' = [q EXCEPT !.queue = Queue_get(q.queue).rest,
                      !.cur = Queue_get(q.queue).item,
                      !.pc = "exec"]
    /\ sys' = [sys EXCEPT !.log = <<>>]
    /\ obs' = Observe("instructions.get", "command_task")
    /\ UNCHANGED stream

\* InstructionsQueue.run: the instruction is called and marked done
RunnerExec ==
    /\ ~sys.halted
    /\ q.pc = "exec"
    /\ \E r \in RepliesTo(QueriesOf(q.cur.fn)) :
          \E s \in {Instruction_call(q.cur.fn, q.cur.args, Begin(r))} :
              /\ sys' = End(s)
              /\ obs' = [Observe(q.cur.fn, "command_task")
                             EXCEPT !.arg = IF q.cur.args = <<>> THEN NULL
                                             ELSE q.cur.args[1],
                                    !.notified = s.notified]
    /\ q' = [q EXCEPT !.cur = <<>>, !.pc = "get",
                      !.jncnt = @ - 1, !.ndone = @ + 1]
    /\ UNCHANGED stream

NextQueue ==
    \/ BleWrite
    \/ RunnerGet
    \/ RunnerExec
    \/ ButtonLongPress

SpecQueue == Init /\ [][NextQueue]_vars

(***************************************************************************)
(* Properties of the coordination fabric, stated for Spec.                  *)
(***************************************************************************)
Entries(ev, what) ==
    {i \in DOMAIN sys.log : sys.log[i].ev = ev /\ sys.log[i].what = what}

\* C1: once a handler has returned, the PSU and the inverter are never both
\* active
C1_MutualExclusion == ~(sys.psu.active /\ sys.inverter.active)

\* psu.on has run to completion starting with the inverter active
C1_Witness ==
    obs.op = "psu.on" /\ obs.pre_inverter_active /\ sys.psu.active

\* C2: when ENABLE_CHARGE is written, inverter.off has returned earlier in
\* the same psu.on and the inverter is inactive; when ENABLE_DISCHARGE is
\* written, psu.off has returned earlier in the same inverter.on and the PSU
\* is inactive
C2_CallbackOrder ==
    /\ \A i \in Entries("tx", "ENABLE_CHARGE") :
          /\ ~sys.log[i].inverter_active
          /\ \E j \in Entries("ret", "inverter.off") :
                /\ j < i
                /\ \E k \in Entries("call", "psu.on") : k < j
    /\ \A i \in Entries("tx", "ENABLE_DISCHARGE") :
          /\ ~sys.log[i].psu_active
          /\ \E j \in Entries("ret", "psu.off") :
                /\ j < i
                /\ \E k \in Entries("call", "inverter.on") : k < j

\* psu.on has written ENABLE_CHARGE having started with the inverter active
C2_Witness ==
    /\ obs.op = "psu.on"
    /\ obs.pre_inverter_active
    /\ Entries("tx", "ENABLE_CHARGE") # {}

\* C3: at the end of a BMS tick in which BATTERY_DISCHARGED fired with the
\* inverter active, the inverter is inactive and its gate is low; at the end
\* of one in which BATTERY_CHARGED fired with the PSU active, the PSU is
\* inactive and its gate is low
C3_ThresholdSwitchesOff ==
    obs.op = "bms.run" =>
        /\ ("BATTERY_DISCHARGED" \in Fired(sys) /\ obs.pre_inverter_active)
               => (~sys.inverter.active /\ sys.inverter.power_gate_pin = 0)
        /\ ("BATTERY_CHARGED" \in Fired(sys) /\ obs.pre_psu_active)
               => (~sys.psu.active /\ sys.psu.power_gate_pin = 0)

\* a BMS tick has fired BATTERY_DISCHARGED with the inverter active
C3_Witness ==
    /\ obs.op = "bms.run"
    /\ "BATTERY_DISCHARGED" \in Fired(sys)
    /\ obs.pre_inverter_active

\* C9: whenever psu.off or inverter.off returns, the gate of the component
\* is low, the component is inactive and its telemetry is NULL
C9_OffClears ==
    /\ \A i \in Entries("ret", "psu.off") :
          /\ sys.log[i].psu_gate = 0
          /\ ~sys.log[i].psu_active
          /\ sys.log[i].psu_null
    /\ \A i \in Entries("ret", "inverter.off") :
          /\ sys.log[i].inverter_gate = 0
          /\ ~sys.log[i].inverter_active
          /\ sys.log[i].inverter_null

\* inverter.off has returned having started with telemetry present
C9_Witness ==
    /\ Entries("ret", "inverter.off") # {}
    /\ obs.pre_inverter_active
    /\ ~obs.pre_inverter_null

BmsFirstFrame ==
    \E response \in StatusReplies, r \in RepliesTo(1) :
        /\ BmsExchange(response, r, TRUE)
        /\ stream' = ObserveFrame(response, sys')

BmsNextFrame ==
    \E response \in StatusReplies, r \in RepliesTo(1) :
        /\ BmsExchange(response, r, FALSE)
        /\ stream' = ObserveFrame(response, sys')

NextThreshold ==
    \/ BmsFirstFrame
    \/ BmsNextFrame
    \/ ExecPsuOn
    \/ ExecInverterOn

SpecThreshold == Init /\ [][NextThreshold]_vars

(***************************************************************************)
(* Properties of the threshold engine, stated for SpecThreshold.           *)
(***************************************************************************)
\* C4: in a run of three or more consecutive parsed frames with a cell above
\* the maximum, BATTERY_CHARGED has been fired exactly once; likewise
\* BATTERY_DISCHARGED in a run of frames with a cell below the minimum
C4_FiredOncePerRun ==
    /\ stream.run_max >= TURN_OFF_MAX_CONFIRMATIONS => stream.charged_in_run = 1
    /\ stream.run_min >= TURN_OFF_MAX_CONFIRMATIONS
           => stream.discharged_in_run = 1

\* C5: a run of fewer than three frames with a cell above the maximum that
\* ends with a frame within the limits has fired no BATTERY_CHARGED; the
\* same for the minimum and BATTERY_DISCHARGED
C5_ShortRunFiresNothing ==
    /\ (stream.ended_max.normal
            /\ stream.ended_max.len < TURN_OFF_MAX_CONFIRMATIONS)
           => stream.ended_max.fired = 0
    /\ (stream.ended_min.normal
            /\ stream.ended_min.len < TURN_OFF_MAX_CONFIRMATIONS)
           => stream.ended_min.fired = 0

\* C6: BATTERY_CHARGED is fired only on a frame for which the three most
\* recent parsed frames each had a cell above the maximum, BATTERY_DISCHARGED
\* only when each had a cell below the minimum
C6_IndependentConfirmations ==
    /\ "BATTERY_CHARGED" \in stream.fired
           => /\ Len(stream.hist) = TURN_OFF_MAX_CONFIRMATIONS
              /\ \A i \in DOMAIN stream.hist : stream.hist[i].mx
    /\ "BATTERY_DISCHARGED" \in stream.fired
           => /\ Len(stream.hist) = TURN_OFF_MAX_CONFIRMATIONS
              /\ \A i \in DOMAIN stream.hist : stream.hist[i].mn

(***************************************************************************)
(* Properties of the instruction queue and of the entry points, stated     *)
(* for SpecQueue.                                                          *)
(***************************************************************************)
Pending == (IF q.pc = "exec" THEN <<q.cur>> ELSE <<>>) \o q.queue

ExternalEffects ==
    {"psu.on", "psu.off", "psu.set_current", "inverter.on", "inverter.off",
     "inverter.on_power_trigger", "inverter.pull_history", "bms.pull_history",
     "psu.pull_history", "profile.set", "ats.enable", "ats.disable",
     "ota.update", "machine.reset", "logger.start_ble_forwarding",
     "logger.stop_ble_forwarding"}

\* C8: every side effect of an external action is performed by the command
\* task, none in the transport callback or in a timer callback
C8_EffectsOnCommandTask ==
    obs.op \in ExternalEffects => obs.ctx = "command_task"

(***************************************************************************)
(* Properties of single handlers, stated for Spec.                         *)
(***************************************************************************)
ModifyFrames ==
    {"ENABLE_CHARGE", "DISABLE_CHARGE", "ENABLE_DISCHARGE", "DISABLE_DISCHARGE"}

IsModifyTx(e) == e.ev = "tx" /\ e.what \in ModifyFrames

\* the modify frames written by the handler that ran last, in order
ModifyFramesWritten ==
    LET tx == SelectSeq(sys.log, IsModifyTx)
    IN  [i \in DOMAIN tx |-> tx[i].what]

\* C11: psu.on executed with the PSU and the inverter both off ends with the
\* PSU active and the inverter inactive, and the modify frames written to
\* the BMS during it are exactly one ENABLE_CHARGE
C11_PsuOnFromOff ==
    (obs.op = "psu.on" /\ ~obs.pre_psu_active /\ ~obs.pre_inverter_active)
        => /\ sys.psu.active
           /\ ~sys.inverter.active
           /\ ModifyFramesWritten = <<"ENABLE_CHARGE">>

(* The shared UART. *)
IsTaskWrite(e) == e.ev = "uart.write"
IsTaskSample(e) == e.ev = "uart.sample"
\* the UART accesses made by the device tasks in the handler that ran last
TaskWrites == SelectSeq(sys.log, IsTaskWrite)
TaskSamples == SelectSeq(sys.log, IsTaskSample)
\* C12: every write (and the read that follows it) made on the shared UART by
\* the inverter task happens while the last init() of the UART was the
\* inverter's, and every sample taken by the PSU task happens while the last
\* init() was the PSU's
C12_UartOwner ==
    /\ \A i \in DOMAIN TaskWrites : TaskWrites[i].uart = "inverter"
    /\ \A i \in DOMAIN TaskSamples : TaskSamples[i].uart = "psu"

(***************************************************************************)
(* SpecHealth: the BMS task with a clock.  Between two iterations of the   *)
(* task any time may pass (the task sleeps, other tasks hold the           *)
(* scheduler); Gaps holds a short delay and the two delays on either side  *)
(* of the health limit STATE_FREQUENCY + 5.                                *)
(***************************************************************************)
Gaps ==
    {bootstrapping_delay,
     STATE_FREQUENCY + HealthGrace, STATE_FREQUENCY + HealthGrace + 1}

\* time passes, in SpecHealth, SpecSettle and SpecAts only: in the other
\* specifications the clock stays at 0 and the sleeps are not timed

Advance ==
    \E d \in Gaps :
        /\ sys.now + d <= MaxClock
        /\ sys' = [sys EXCEPT !.now = @ + d]
        /\ UNCHANGED <<obs, stream, q>>

NextHealth ==
    \/ Advance
    \/ BmsStart
    \/ BmsTick

SpecHealth == Init /\ [][NextHealth]_vars

\* the last handler was an iteration of the BMS task that took a snapshot
\* and an earlier snapshot had been taken
BmsSnapshotAfterSnapshot ==
    obs.op = "bms.run" /\ obs.pre_bms_modified > 0
\* the time between that snapshot and the one before it
SnapshotGap == sys.bms.state_modified - obs.pre_bms_modified
\* C14: a snapshot taken more than STATE_FREQUENCY + 5 seconds after the
\* previous one leaves TIMEOUT set; a snapshot taken within the limit leaves
\* it clear
C14_SnapshotHealth ==
    BmsSnapshotAfterSnapshot
        => ((ERROR_TIMEOUT \in sys.bms.internal_errors)
                <=> (SnapshotGap > STATE_FREQUENCY + HealthGrace))

(***************************************************************************)
(* SpecSettle: the inverter task with a clock.  The bootstrapping sleep    *)
(* ends no earlier than sleep_until; commands arrive at any time.          *)
(***************************************************************************)
InverterWake ==
    /\ sys.now >= sys.inverter.sleep_until
    /\ InverterSettled

NextSettle ==
    \/ Advance
    \/ ExecInverterOn
    \/ ExecInverterOff
    \/ InverterTick
    \/ InverterWake

SpecSettle == Init /\ [][NextSettle]_vars

\* C13: every STATUS_REQUEST the inverter task writes is written at least
\* bootstrapping_delay seconds after the most recent inverter.on(): none is
\* written during the settle delay that follows that on()
C13_NoRequestBeforeSettled ==
    \A i \in DOMAIN TaskWrites : TaskWrites[i].since_on >= bootstrapping_delay

(***************************************************************************)
(* SpecBase: the methods of BaseState applied to the probe object, in any  *)
(* order and with any error bit.  "set_error;set_error" and "on;off" are   *)
(* two calls made one after the other by the same caller.                  *)
(***************************************************************************)
ProbeBits ==
    {ERROR_TIMEOUT, ERROR_NO_RESPONSE, ERROR_BAD_RESPONSE, ERROR_EXTERNAL}

ProbeStep(op, b, s) ==
    /\ sys' = End(s)
    /\ obs' = [Observe(op, "probe") EXCEPT !.arg = b]
    /\ UNCHANGED <<stream, q>>

ProbeSetError ==
    \E b \in ProbeBits :
        ProbeStep("set_error", b, BaseState_set_error("probe", Begin(<<>>), b))

ProbeSetErrorTwice ==
    \E b \in ProbeBits :
        ProbeStep("set_error;set_error", b,
                  BaseState_set_error(
                      "probe", BaseState_set_error("probe", Begin(<<>>), b), b))

ProbeResetError ==
    \E b \in ProbeBits :
        ProbeStep("reset_error", b,
                  BaseState_reset_error("probe", Begin(<<>>), b))

ProbeClearInternalErrors ==
    ProbeStep("clear_internal_errors", NULL,
              BaseState_clear_internal_errors("probe", Begin(<<>>)))

ProbeOn == ProbeStep("on", NULL, BaseState_on("probe", Begin(<<>>)))

ProbeOff == ProbeStep("off", NULL, BaseState_off("probe", Begin(<<>>)))

ProbeOnOff ==
    ProbeStep("on;off", NULL,
              BaseState_off("probe", BaseState_on("probe", Begin(<<>>))))

NextBase ==
    \/ ProbeSetError
    \/ ProbeSetErrorTwice
    \/ ProbeResetError
    \/ ProbeClearInternalErrors
    \/ ProbeOn
    \/ ProbeOff
    \/ ProbeOnOff

SpecBase == Init /\ [][NextBase]_vars

\* the subscribers of the probe called by the last handler, in call order
ProbeCalls == [i \in DOMAIN sys.log |-> sys.log[i].what]
\* C15: set_error(b) adds bit b to internal_errors and reset_error(b) removes
\* it, leaving every other bit as it was; the CHANGE subscribers are notified
\* (each once) exactly when the bit flips, so set_error(b) called twice
\* notifies once at most and reset_error(b) on a clear bit does nothing
C15_ErrorBitsIdempotent ==
    LET pre == obs.pre_probe.internal_errors
        post == sys.probe.internal_errors
        b == obs.arg
    IN  /\ obs.op \in {"set_error", "set_error;set_error"}
            => /\ post = pre \cup {b}
               /\ ProbeCalls = IF b \in pre THEN <<>> ELSE ProbeChangeCallbacks
        /\ obs.op = "reset_error"
            => /\ post = pre \ {b}
               /\ ProbeCalls = IF b \in pre THEN ProbeChangeCallbacks ELSE <<>>
\* set_error(b) has been called twice on a clear bit b with another bit set,
\* and reset_error on a clear bit
C15_Witness ==
    /\ obs.op = "set_error;set_error"
    /\ obs.arg \notin obs.pre_probe.internal_errors
    /\ obs.pre_probe.internal_errors # {}
    /\ ProbeCalls = ProbeChangeCallbacks
    /\ sys.probe.internal_errors = obs.pre_probe.internal_errors \cup {obs.arg}

\* C16: on() sets active and then calls each ON subscriber once, in
\* registration order, then each CHANGE subscriber; off() clears active and
\* does the same with the OFF subscribers; on() followed by off() ends
\* inactive having called every ON and every OFF subscriber exactly once
C16_OnOffFanOut ==
    /\ obs.op = "on"
        => /\ sys.probe.active
           /\ ProbeCalls = ProbeOnCallbacks \o ProbeChangeCallbacks
           /\ \A i \in DOMAIN sys.log : sys.log[i].probe_active
    /\ obs.op = "off"
        => /\ ~sys.probe.active
           /\ ProbeCalls = ProbeOffCallbacks \o ProbeChangeCallbacks
           /\ \A i \in DOMAIN sys.log : ~sys.log[i].probe_active
    /\ obs.op = "on;off"
        => /\ ~sys.probe.active
           /\ ProbeCalls = ProbeOnCallbacks \o ProbeChangeCallbacks
                               \o ProbeOffCallbacks \o ProbeChangeCallbacks
\* on() followed by off() has run on an inactive probe
C16_Witness ==
    /\ obs.op = "on;off"
    /\ ~obs.pre_probe.active
    /\ ~sys.probe.active
    /\ Len(sys.log) = Len(ProbeOnCallbacks) + Len(ProbeOffCallbacks)
                          + 2 * Len(ProbeChangeCallbacks)

(***************************************************************************)
(* SpecStatus: the status exchange of the BMS task with every kind of      *)
(* reply, among them a well-formed reply whose capacity word is 0.         *)
(***************************************************************************)
ExchangeReplies ==
    StatusReplies
    \cup {[kind |-> "ok", cells |-> <<3300, 3300, 3300, 3300>>, ext |-> e,
           capacity |-> 0] : e \in {0, 1}}

StatusFirst ==
    \E response \in ExchangeReplies, r \in RepliesTo(1) :
        /\ BmsExchange(response, r, TRUE)
        /\ UNCHANGED stream

StatusNext ==
    \E response \in ExchangeReplies, r \in RepliesTo(1) :
        /\ BmsExchange(response, r, FALSE)
        /\ UNCHANGED stream

NextStatus ==
    \/ StatusFirst
    \/ StatusNext
    \/ ExecPsuOn
    \/ ExecInverterOn

SpecStatus == Init /\ [][NextStatus]_vars

BmsTelemetryNull(s) ==
    /\ s.bms.cells = NoCells
    /\ \A f \in BmsClearedFields : s.bms[f] = NULL
\* C17: after a status exchange whose reply was empty or failed to parse,
\* NO_RESPONSE is set and every nullable telemetry field of the BMS is NULL;
\* after an exchange whose reply was parsed to the end, NO_RESPONSE is clear
C17_StatusExchange ==
    obs.op = "bms.run"
        => /\ obs.reply \in {"empty", "bad"}
               => /\ ERROR_NO_RESPONSE \in sys.bms.internal_errors
                  /\ BmsTelemetryNull(sys)
           /\ obs.reply = "ok"
               => ERROR_NO_RESPONSE \notin sys.bms.internal_errors

(***************************************************************************)
(* SpecInverterFrames: the inverter task reading every kind of reply.      *)
(***************************************************************************)
\* the class of a reply buffer: "frame.ok" is a 17-byte frame between 0xAE
\* and 0xEE whose checksum matches, "frame.badsum" one whose checksum does
\* not match
BufferClass(buffer) ==
    IF buffer.kind = "frame"
    THEN IF buffer.checksum_ok THEN "frame.ok" ELSE "frame.badsum"
    ELSE buffer.kind

InverterRead ==
    /\ ~sys.halted
    /\ sys.inverter_pc = "loop"
    /\ sys.inverter.active
    /\ ~sys.inverter.bootstrapping
    /\ \E buffer \in InverterReplies :
          /\ sys' = End(InverterController_run_body(Begin(<<>>), buffer))
          /\ obs' = [Observe("inverter.read", "inverter_task")
                         EXCEPT !.reply = BufferClass(buffer),
                                !.pre_inverter = sys.inverter]
    /\ UNCHANGED <<stream, q>>

NextInverterFrames ==
    \/ ExecInverterOn
    \/ ExecInverterOff
    \/ InverterTick
    \/ InverterSettled
    \/ InverterRead

SpecInverterFrames == Init /\ [][NextInverterFrames]_vars

\* the fields of the inverter state that parse assigns from a frame
InverterFrameFields(inverter) ==
    <<inverter.ac, inverter.power, inverter.dc, inverter.temperature,
      inverter.level, inverter.external_errors>>
\* C18: after parse_buffer has been given a non-empty buffer that holds no
\* well-formed frame (no delimiters, wrong length, a checksum that does not
\* match), BAD_RESPONSE is set, whatever the previous reply was
C18_MalformedSetsBadResponse ==
    (/\ obs.op = "inverter.read"
     /\ obs.reply \in {"noframe", "short", "frame.badsum", "notbcd"})
        => ERROR_BAD_RESPONSE \in sys.inverter.internal_errors
\* C19: a frame whose checksum does not match, received after a valid frame,
\* sets BAD_RESPONSE and leaves ac, power, dc, temperature, level and
\* external_errors as the last valid frame set them
C19_CorruptedKeepsFields ==
    (/\ obs.op = "inverter.read"
     /\ obs.reply = "frame.badsum"
     /\ obs.pre_inverter.valid)
        => /\ ERROR_BAD_RESPONSE \in sys.inverter.internal_errors
           /\ InverterFrameFields(sys.inverter)
                  = InverterFrameFields(obs.pre_inverter)

(***************************************************************************)
(* SpecPsuFrames: PSUState.parse_buffer applied to the PSU state with      *)
(* every buffer, any number of times, between the commands that switch the *)
(* PSU.                                                                    *)
(***************************************************************************)
PsuBufferClass(buffer) ==
    IF buffer.kind = "none" THEN "none"
    ELSE IF ~buffer.power_crc_ok THEN "frame.badpowercrc"
    ELSE IF ~buffer.data_crc_ok THEN "frame.baddatacrc"
    ELSE "frame.ok"

PsuParseBuffer ==
    /\ \E buffer \in PsuBuffers :
          /\ sys' = End(PSUState_parse_buffer(Begin(<<>>), buffer))
          /\ obs' = [Observe("psu.parse_buffer", "psu_task")
                         EXCEPT !.reply = PsuBufferClass(buffer),
                                !.arg = buffer.power1,
                                !.pre_psu = sys.psu]
    /\ UNCHANGED <<stream, q>>

NextPsuFrames ==
    \/ ExecPsuOn
    \/ ExecPsuOff
    \/ PsuParseBuffer

SpecPsuFrames == Init /\ [][NextPsuFrames]_vars

\* the fields of the PSU state that parse assigns from a frame
PsuFrameFields(psu) ==
    <<psu.power1, psu.power2, psu.ac, psu.state, psu.t1, psu.t2, psu.t3>>
\* C20: a complete frame whose power CRC or data CRC does not match sets
\* BAD_RESPONSE and leaves power1, power2, ac, state, t1, t2 and t3 as they
\* were; a frame whose two CRCs match assigns them and clears BAD_RESPONSE,
\* and no other buffer does either
C20_PsuCrc ==
    obs.op = "psu.parse_buffer"
        => /\ obs.reply \in {"frame.badpowercrc", "frame.baddatacrc"}
               => /\ ERROR_BAD_RESPONSE \in sys.psu.internal_errors
                  /\ PsuFrameFields(sys.psu) = PsuFrameFields(obs.pre_psu)
           /\ obs.reply = "frame.ok"
               => /\ ERROR_BAD_RESPONSE \notin sys.psu.internal_errors
                  /\ sys.psu.power1 = obs.arg
           /\ obs.reply # "frame.ok"
               => /\ PsuFrameFields(sys.psu) = PsuFrameFields(obs.pre_psu)
                  /\ ERROR_BAD_RESPONSE \in obs.pre_psu.internal_errors
                         => ERROR_BAD_RESPONSE \in sys.psu.internal_errors
\* a frame with a wrong data CRC has arrived after a valid frame
C20_Witness ==
    /\ obs.op = "psu.parse_buffer"
    /\ obs.reply = "frame.baddatacrc"
    /\ obs.pre_psu.power1 # NULL
    /\ obs.arg # obs.pre_psu.power1
    /\ ERROR_BAD_RESPONSE \notin obs.pre_psu.internal_errors
    /\ ERROR_BAD_RESPONSE \in sys.psu.internal_errors
    /\ sys.psu.power1 = obs.pre_psu.power1

(***************************************************************************)
(* Properties of the executed commands, stated for SpecQueue.               *)
(***************************************************************************)
\* C21: when psu.set_current(c) has run on the command task, the PSU state
\* has been pushed on the PSU UUID with its CHANGE subscribers called during
\* that command, current_channel is c and the pins hold the two bits of c
C21_SetCurrentNotifies ==
    (obs.op = "psu.set_current" /\ obs.ctx = "command_task")
        => /\ "psu" \in obs.notified
           /\ sys.psu.current_channel = obs.arg
           /\ sys.psu.current_a_pin = obs.arg % 2
           /\ sys.psu.current_b_pin = (obs.arg \div 2) % 2

(***************************************************************************)
(* SpecWrite: writes of every explored content to the command handle and   *)
(* to another handle, with the runner emptying the queue.                  *)
(***************************************************************************)
Handles == {"command", "other"}

\* first bytes: every subcommand the handler tests, and two it does not
WriteFirstBytes ==
    {COMMAND_PULL_HISTORY, COMMAND_PSU_ENABLE, COMMAND_PSU_DISABLE,
     COMMAND_PSU_CURRENT, COMMAND_INVERTER_ENABLE, COMMAND_INVERTER_DISABLE,
     COMMAND_ATS_ENABLE, COMMAND_ATS_DISABLE, COMMAND_CONF_SET_KEY,
     COMMAND_CONF_PROFILE, COMMAND_UPDATE_FIRMWARE, COMMAND_REBOOT,
     COMMAND_START_LOG, COMMAND_STOP_LOG, 0, 255}

\* the bytes after the first, for the subcommands that read them and for
\* one that does not
WritePayloads == {<<2>>, <<2, 7>>}

WriteData ==
    {<<>>} \cup {<<b>> : b \in WriteFirstBytes}
    \cup {<<b>> \o p : b \in {COMMAND_PSU_CURRENT, COMMAND_CONF_SET_KEY,
                               COMMAND_PSU_ENABLE},
                       p \in WritePayloads}

\* a write arrives while no instruction is waiting (one may be in
\* execution)
BleWriteAny ==
    /\ q.queue = <<>>
    /\ \E handle \in Handles, data \in WriteData :
          OnWriteState(handle, data)

NextWrite ==
    \/ BleWriteAny
    \/ RunnerGet
    \/ RunnerExec

SpecWrite == Init /\ [][NextWrite]_vars

\* the instructions a step has appended to the queue, each as the pair of
\* its callback and its arguments
Added ==
    [i \in 1..(Len(q'.queue) - Len(q.queue)) |->
        <<q'.queue[Len(q.queue) + i].fn, q'.queue[Len(q.queue) + i].args>>]

Prefix(a, b) == Len(a) <= Len(b) /\ SubSeq(b, 1, Len(a)) = a

AddedSet == {Added[i] : i \in DOMAIN Added}

ComponentState(s) == <<s.psu, s.inverter, s.bms>>

\* the step is a write of a subcommand of the opcode table, with the bytes
\* the subcommand reads, to the command characteristic
TableWrite ==
    /\ obs'.ctx = "transport_callback"
    /\ obs'.handle = "command"
    /\ Len(obs'.data) >= 1
    /\ obs'.data[1] \in
           {COMMAND_PULL_HISTORY, COMMAND_PSU_ENABLE, COMMAND_PSU_DISABLE,
            COMMAND_PSU_CURRENT, COMMAND_INVERTER_ENABLE,
            COMMAND_INVERTER_DISABLE, COMMAND_ATS_ENABLE, COMMAND_ATS_DISABLE,
            COMMAND_CONF_SET_KEY, COMMAND_UPDATE_FIRMWARE}
    /\ obs'.data[1] \in {COMMAND_PSU_CURRENT, COMMAND_CONF_SET_KEY}
           => Len(obs'.data) >= 2

\* the opcode table
TableHolds ==
    LET data == obs'.data
        op == data[1]
    IN  /\ Prefix(q.queue, q'.queue)
        /\ op = COMMAND_PULL_HISTORY =>
               Added = << <<"inverter.pull_history", <<>> >>,
                          <<"bms.pull_history", <<>> >>,
                          <<"psu.pull_history", <<>> >> >>
        /\ op = COMMAND_PSU_ENABLE => Added = << <<"psu.on", <<>> >> >>
        /\ op = COMMAND_PSU_DISABLE => Added = << <<"psu.off", <<>> >> >>
        /\ op = COMMAND_PSU_CURRENT =>
               Added = << <<"psu.set_current", <<data[2]>> >> >>
        /\ op = COMMAND_INVERTER_ENABLE =>
               Added = << <<"inverter.on", <<>> >> >>
        /\ op = COMMAND_INVERTER_DISABLE =>
               Added = << <<"inverter.off", <<>> >> >>
        /\ op = COMMAND_ATS_ENABLE =>
               /\ Len(Added) = 2
               /\ AddedSet = {<<"ats.enable", <<>> >>,
                              <<"profile.set", <<PROFILE_KEY_ATS, <<1>> >> >>}
        /\ op = COMMAND_ATS_DISABLE =>
               /\ Len(Added) = 2
               /\ AddedSet = {<<"ats.disable", <<>> >>,
                              <<"profile.set", <<PROFILE_KEY_ATS, <<0>> >> >>}
        /\ op = COMMAND_CONF_SET_KEY =>
               Added = << <<"profile.set",
                            <<data[2], SubSeq(data, 3, Len(data))>> >> >>
        /\ op = COMMAND_UPDATE_FIRMWARE =>
               Added = << <<"ota.update", <<>> >> >>
        /\ ComponentState(sys') = ComponentState(sys)

\* the step appends no instruction and leaves the components as they were
NothingHappens ==
    /\ Added = <<>>
    /\ ComponentState(sys') = ComponentState(sys)

DataTypes == {0, 1}

ChartTypes == {3, 42}

Seeds == {7, 1009}

\* the widest value of an element
PointModulus(data_type) == IF data_type = 0 THEN 256 ELSE 65536

\* the k-th point pushed to the ring h
PointAt(h, k) == (k * h.seed) % PointModulus(h.data_type)

\* deque.append on a bounded deque: a full deque discards its oldest item
deque_append(buffer, point, maxlen) ==
    IF Len(buffer) >= maxlen THEN Append(Tail(buffer), point)
    ELSE Append(buffer, point)

HistoricalData_push(h, point) ==
    [h EXCEPT !.buffer = deque_append(@, point, h.length)]

\* struct.pack("I", v)
UInt32Bytes(v) ==
    <<v % 256, (v \div 256) % 256, (v \div 65536) % 256,
      (v \div 16777216) % 256>>

\* struct.pack of points in format "B" (one byte each) or "H" (two bytes
\* each, low byte first)
StructPack(data_type, points) ==
    IF data_type = 0 THEN [i \in 1..Len(points) |-> points[i] % 256]
    ELSE [j \in 1..(2 * Len(points)) |->
             IF j % 2 = 1 THEN points[(j + 1) \div 2] % 256
             ELSE (points[j \div 2] \div 256) % 256]

HistoricalData_pack_header_unclamped(chart_type, data_type, incremental, length, offset) ==
    UInt32Bytes((chart_type % 64) * 262144 + (data_type % 2) * 131072
                + (incremental % 2) * 65536 + (offset % 256) * 256
                + (length % 256))

HistoricalData_pack_header(chart_type, data_type, incremental, length, offset) ==
    LET overflow == (offset + length) - HISTORY_SIZE
        clamped == IF overflow > 0 THEN length - overflow ELSE length
    IN  UInt32Bytes((chart_type % 64) * 262144 + (data_type % 2) * 131072
                    + (incremental % 2) * 65536 + (offset % 256) * 256
                    + (clamped % 256))

\* the list of chunks; None, the result for an empty ring, is the empty list
HistoricalData_ble_chunks(h, mtu) ==
    LET payload_size == mtu - 4
        points == IF h.data_type = 1 THEN payload_size \div 2
                  ELSE payload_size
        queue == h.buffer
        base_offset == HISTORY_SIZE - Len(queue)
        count == (Len(queue) + points - 1) \div points
    IN  [k \in 1..count |->
            HistoricalData_pack_header(h.chart_type, h.data_type, 0, points,
                                       base_offset + (k - 1) * points)
            \o StructPack(h.data_type,
                          SubSeq(queue, (k - 1) * points + 1,
                                 Min2(k * points, Len(queue))))]

InitHistory ==
    /\ \E chart_type \in ChartTypes, data_type \in DataTypes, seed \in Seeds :
          sys = [InitSys EXCEPT !.history.chart_type = chart_type,
                                !.history.data_type = data_type,
                                !.history.seed = seed]
    /\ obs = InitObs /\ stream = InitStream /\ q = InitQ

HistoryPush ==
    /\ sys.history.pushed < MaxPushes
    /\ sys' = [sys EXCEPT
                 !.history = [HistoricalData_push(
                                  @, PointAt(@, @.pushed + 1))
                                 EXCEPT !.pushed = @ + 1]]
    /\ obs' = Observe("history.push", "snapshot")
    /\ UNCHANGED <<stream, q>>

HistoryDump ==
    /\ obs' = [Observe("history.ble_chunks", "transport_callback")
                  EXCEPT !.chunks = HistoricalData_ble_chunks(sys.history, 20)]
    /\ UNCHANGED <<sys, stream, q>>

NextHistory ==
    \/ HistoryPush
    \/ HistoryDump

SpecHistory == InitHistory /\ [][NextHistory]_vars

\* the fields of the header of a chunk
HeaderWord(chunk) ==
    chunk[1] + 256 * chunk[2] + 65536 * chunk[3] + 16777216 * chunk[4]

HeaderLength(chunk) == HeaderWord(chunk) % 256

HeaderOffset(chunk) == (HeaderWord(chunk) \div 256) % 256

HeaderIncremental(chunk) == (HeaderWord(chunk) \div 65536) % 2

\* the values a chunk of the given element width carries
ChunkValues(data_type, chunk) ==
    LET payload == SubSeq(chunk, 5, Len(chunk))
    IN  IF data_type = 0 THEN payload
        ELSE [i \in 1..(Len(payload) \div 2) |->
                 payload[2 * i - 1] + 256 * payload[2 * i]]

RECURSIVE Concatenated(_, _)
Concatenated(data_type, chunks) ==
    IF chunks = <<>> THEN <<>>
    ELSE ChunkValues(data_type, Head(chunks))
         \o Concatenated(data_type, Tail(chunks))

\* the most recent min(N, HISTORY_SIZE) points pushed to h
Recent(h) ==
    LET n == Min2(h.pushed, HISTORY_SIZE)
    IN  [i \in 1..n |-> PointAt(h, h.pushed - n + i)]

\* C23: the chunks of a full dump (mtu = 20) concatenate, in order, to the
\* most recent min(N, HISTORY_SIZE) pushed values; every header has
\* incremental = 0, the offset of its first value and the number of values
\* the chunk carries, the offsets increase by the value count of the chunk
\* before, and no header has offset + length > HISTORY_SIZE
C23_FullDump ==
    obs.op = "history.ble_chunks" =>
        LET h == sys.history
            chunks == obs.chunks
            carried(k) == Len(ChunkValues(h.data_type, chunks[k]))
        IN  /\ Concatenated(h.data_type, chunks) = Recent(h)
            /\ \A k \in DOMAIN chunks :
                  /\ HeaderIncremental(chunks[k]) = 0
                  /\ HeaderLength(chunks[k]) = carried(k)
                  /\ HeaderOffset(chunks[k]) =
                        IF k = 1
                        THEN HISTORY_SIZE - Min2(h.pushed, HISTORY_SIZE)
                        ELSE HeaderOffset(chunks[k - 1]) + carried(k - 1)
                  /\ HeaderOffset(chunks[k]) + HeaderLength(chunks[k])
                        <= HISTORY_SIZE

\* a dump of a ring that has discarded points, in several chunks of which
\* the last is short
C23_Witness ==
    /\ obs.op = "history.ble_chunks"
    /\ sys.history.pushed > HISTORY_SIZE
    /\ sys.history.data_type = 0
    /\ Len(obs.chunks) = 8
    /\ HeaderLength(obs.chunks[8]) = 8

(***************************************************************************)
(* The profile store, stated for SpecProfile: profile.set as the command   *)
(* task executes it for a write of COMMAND_CONF_SET_KEY, the accounting    *)
(* of the BMS task that stores a native value, and a reboot on the file    *)
(* system the firmware has left.                                           *)
(***************************************************************************)
\* a key that KEY_TYPES does not hold
PROFILE_KEY_UNKNOWN == CHOOSE k \in 0..255 : KEY_TYPES(k) = "NONE"

\* the key of the model name, which app.py imports from const and KEY_TYPES
\* does not hold
PROFILE_KEY_MODEL ==
    CHOOSE k \in 0..255 : KEY_TYPES(k) = "NONE" /\ k # PROFILE_KEY_UNKNOWN

ProfileParams ==
    {PROFILE_KEY_ATS, PROFILE_KEY_PSU_CURRENT, PROFILE_KEY_WIFI_SSID,
     PROFILE_KEY_MIN_VOLTAGE, PROFILE_KEY_UNKNOWN}

\* value bytes of a write: one byte, and the four bytes of the float 1.0
ProfileValues == {<<0>>, <<1>>, <<0, 0, 128, 63>>}

\* values of mcu_consumed
McuConsumed == {0, 5}

\* profile.set executed by the runner for a key of params
ProfileSetIn(params) ==
    /\ \E param \in params, value \in ProfileValues :
          IF ProfileState_cast_raises(param, value)
          THEN /\ sys' = End(Begin(<<>>))
               /\ obs' = [Observe("profile.set", "command_task")
                             EXCEPT !.arg = param, !.data = value,
                                    !.reply = "raised"]
          ELSE /\ sys' = End(ProfileController_set(
                                 Begin(<<>>), param,
                                 ProfileState_cast(param, value)))
               /\ obs' = [Observe("profile.set", "command_task")
                             EXCEPT !.arg = param, !.data = value,
                                    !.reply = "returned"]
    /\ UNCHANGED <<stream, q>>

ProfileSet == ProfileSetIn(ProfileParams)

ProfileSetNative ==
    /\ \E mcu_consumed \in McuConsumed :
          /\ sys' = End(ProfileController_set(
                            Begin(<<>>), PROFILE_KEY_MCU_POWER,
                            PyFloat(<<mcu_consumed>>)))
          /\ obs' = [Observe("profile.set", "bms_task")
                        EXCEPT !.arg = PROFILE_KEY_MCU_POWER,
                               !.data = <<mcu_consumed>>,
                               !.reply = "returned"]
    /\ UNCHANGED <<stream, q>>

ProfileReboot ==
    /\ sys' = Boot(sys.profile.exists, sys.profile.file)
    /\ obs' = Observe("machine.reset", "boot")
    /\ UNCHANGED <<stream, q>>

NextProfile ==
    \/ ProfileSet
    \/ ProfileSetNative
    \/ ProfileReboot

SpecProfile == Init /\ [][NextProfile]_vars

\* the calls of a subscriber in the log of the handler that ran last in s
CallsIn(s, name) ==
    Cardinality({i \in DOMAIN s.log :
                    s.log[i].ev = "call" /\ s.log[i].what = name})

\* the map a reboot would load from the file of s
Persisted(s) == [k \in DOMAIN s.profile.file |-> JsonLoad(s.profile.file[k])]

\* the value the last profile.set was called with, as the map holds it
ValueSet ==
    IF obs'.ctx = "bms_task" THEN PyFloat(obs'.data)
    ELSE ProfileState_cast(obs'.arg, obs'.data)

C24_Step ==
    /\ (obs'.op = "profile.set" /\ obs'.reply = "returned") =>
          /\ CallsIn(sys', "ota.on_profile_state") = 1
          /\ CallsIn(sys', "ats.on_profile_state") = 1
          /\ sys'.profile.conf = DictSet(sys.profile.conf, Hex(obs'.arg),
                                         ValueSet)
    /\ sys'.profile.exists /\ Persisted(sys') = sys'.profile.conf
    /\ obs'.op = "machine.reset" => sys'.profile.conf = sys.profile.conf

\* C24: every profile.set call notifies the CHANGE subscribers of the
\* profile once and writes the full map before it returns, so the persisted
\* map equals the map in memory after every call and a reboot yields the
\* values last set; on a boot without a file the map holds the defaults
C24_SetPersists ==
    /\ sys.profile.conf = ProfileDefaults
    /\ [][C24_Step]_vars

(***************************************************************************)
(* The supervisor (core/app.py), stated for SpecSupervisor: the commands   *)
(* of both components, the PSU task, whose exception ends                  *)
(* asyncio.gather and with it asyncio.run(main()), and the except branch   *)
(* of the outermost loop, which is taken whenever it can be.               *)
(***************************************************************************)
\* the except branch: the exception is logged, then the LED is pulsed in a
\* loop that has no exit; a pulse after the first changes nothing
Supervisor ==
    /\ sys.halted
    /\ sys' = End(Log(Log(Begin(<<>>), "logger.critical", "exception"),
                      "led.pulse", "red"))
    /\ obs' = Observe("supervisor.except", "main")
    /\ UNCHANGED <<stream, q>>

NextSupervisor ==
    \/ ExecPsuOn
    \/ ExecPsuOff
    \/ ExecInverterOn
    \/ ExecInverterOff
    \/ ExecPsuSetCurrent
    \/ ButtonLongPress
    \/ PsuTick
    \/ Supervisor

SpecSupervisor == Init /\ [][NextSupervisor]_vars /\ WF_vars(Supervisor)

\* C25: when the run() of a component task has raised, the supervisor logs
\* the exception and the system reboots: the tasks run again
C25_Reboots == sys.halted ~> ~sys.halted

\* C26: when the loop of a component has caught an exception of its tick
\* body (the inverter loop one raised by read_status, the BMS status exchange
\* one raised by parse), the EXCEPTION bit of the component is set in
\* internal_errors and the exception is retained
C26_ExceptionBit ==
    /\ (obs.op = "inverter.read" /\ obs.reply = "notbcd")
          => /\ ERROR_EXCEPTION \in sys.inverter.internal_errors
             /\ sys.inverter.exception # NULL
    /\ (obs.op = "bms.run" /\ obs.reply = "bad")
          => /\ ERROR_EXCEPTION \in sys.bms.internal_errors
             /\ sys.bms.exception # NULL

(***************************************************************************)
(* Failure of a peer, stated for SpecSympathy: the status exchange of the  *)
(* BMS task while one of the subscribers of its events raises when it is   *)
(* called.  obs.fault names that subscriber and obs.sound is the BMS state *)
(* the same exchange ends in when the subscriber returns.                  *)
(***************************************************************************)
\* the subscribers of BATTERY_CHARGED and BATTERY_DISCHARGED
Faults == {"psu.off", "inverter.off"}

BmsFaultyExchange(response, r, first, fault) ==
    /\ ~sys.halted
    /\ sys.bms_pc = (IF first THEN "start" ELSE "loop")
    /\ \E s \in {IF first
                  THEN [BMSController_request_status(
                            [Begin(r) EXCEPT !.fault = fault], response)
                            EXCEPT !.bms_pc = "loop"]
                  ELSE BMSController_run(
                           [Begin(r) EXCEPT !.fault = fault], response)} :
          /\ s.bms.turn_off_confirmations <= MaxConfirmations
          /\ sys' = End(s)
    /\ \E s \in {IF first
                  THEN BMSController_request_status(Begin(r), response)
                  ELSE BMSController_run(Begin(r), response)} :
          obs' = [Observe("bms.run", "bms_task")
                     EXCEPT !.reply = response.kind, !.fault = fault,
                            !.sound = s.bms]
    /\ UNCHANGED <<stream, q>>

BmsFaultyStart ==
    \E response \in StatusReplies, r \in RepliesTo(1), fault \in Faults :
        BmsFaultyExchange(response, r, TRUE, fault)

BmsFaultyTick ==
    \E response \in StatusReplies, r \in RepliesTo(1), fault \in Faults :
        BmsFaultyExchange(response, r, FALSE, fault)

NextSympathy ==
    \/ BmsFaultyStart
    \/ BmsFaultyTick
    \/ ExecPsuOn
    \/ ExecInverterOn

SpecSympathy == Init /\ [][NextSympathy]_vars

\* the telemetry of the BMS and its error bits
BmsOwn(bms) ==
    <<[f \in BmsClearedFields |-> bms[f]], bms.cells, bms.external_errors,
      bms.internal_errors>>

\* C27: when a subscriber called synchronously from a BMS notification
\* raises, the telemetry and the internal_errors of the BMS are what they are
\* when the subscriber returns, and the BMS task keeps running
C27_NoSympathy ==
    obs.fault # "none" =>
        /\ BmsOwn(sys.bms) = BmsOwn(obs.sound)
        /\ ~sys.halted

(***************************************************************************)
(* The current channel, stated for SpecCurrent: writes of                  *)
(* COMMAND_PSU_CURRENT with a channel byte of any size and the runner that *)
(* executes them.                                                          *)
(***************************************************************************)
\* byte 1 of the write: the four channels and two bytes above them
ChannelBytes == {0, 1, 2, 3, 5, 255}

BleWriteCurrent ==
    \E level \in ChannelBytes :
        OnWriteState("command", <<COMMAND_PSU_CURRENT, level>>)

NextCurrent ==
    \/ BleWriteCurrent
    \/ RunnerGet
    \/ RunnerExec

SpecCurrent == Init /\ [][NextCurrent]_vars

\* C28: after any sequence of set_current calls, also those of writes of
\* 0x12 with an arbitrary channel byte, current_channel is a channel in 0..3,
\* pin A is its low bit and pin B its high bit
C28_ChannelRange ==
    /\ sys.psu.current_channel \in 0..3
    /\ sys.psu.current_a_pin = sys.psu.current_channel % 2
    /\ sys.psu.current_b_pin = sys.psu.current_channel \div 2

\* C29: at the end of every status tick of the inverter and of the BMS the
\* EXTERNAL bit of internal_errors is set iff external_errors is not zero,
\* also after a reply that failed to parse or failed the checksum
C29_ExternalBit ==
    /\ obs.op = "inverter.read"
          => (ERROR_EXTERNAL \in sys.inverter.internal_errors
                 <=> sys.inverter.external_errors # 0)
    /\ obs.op = "bms.run"
          => (ERROR_EXTERNAL \in sys.bms.internal_errors
                 <=> sys.bms.external_errors # 0)

(***************************************************************************)
(* SpecAccounting: the BMS task with the accounting of the self-           *)
(* consumption followed, over replies that differ in the current word and  *)
(* in the cells, and the reboot that reloads the accumulator from the      *)
(* profile file.                                                           *)
(***************************************************************************)
\* current words: 2.91 A and 0.10 A with bit 15 set, 2.91 A with bit 15 clear
AccountingReplies ==
    {[kind |-> "empty", cells |-> NoCells, ext |-> NULL, capacity |-> NULL,
      current |-> NULL]}
    \cup {[kind |-> "ok", cells |-> cv, ext |-> 0, capacity |-> 280,
           current |-> c] :
              cv \in {<<3300, 3300, 3300, 3300>>, <<3600, 3300, 3300, 3300>>},
              c \in {291, 32768 + 291, 32768 + 10}}

AccountingExchange(response, r, first) ==
    /\ BmsExchange(response, r, first)
    /\ sys'.bms.mcu_consumed <= MaxConsumed
    /\ UNCHANGED stream

AccountStart ==
    \E response \in AccountingReplies, r \in RepliesTo(1) :
        AccountingExchange(response, r, TRUE)

AccountTick ==
    \E response \in AccountingReplies, r \in RepliesTo(1) :
        AccountingExchange(response, r, FALSE)

AccountReboot ==
    /\ sys' = [Boot(sys.profile.exists, sys.profile.file)
                  EXCEPT !.accounting = TRUE]
    /\ obs' = Observe("machine.reset", "boot")
    /\ UNCHANGED <<stream, q>>

NextAccounting ==
    \/ AccountStart
    \/ AccountTick
    \/ AccountReboot

InitAccounting ==
    /\ sys = [InitSys EXCEPT !.accounting = TRUE]
    /\ obs = InitObs
    /\ stream = InitStream
    /\ q = InitQ

SpecAccounting == InitAccounting /\ [][NextAccounting]_vars

\* the value of mcu_consumed in the profile file
SavedConsumption(s) == s.profile.file[Hex(PROFILE_KEY_MCU_POWER)].v[1]

C30_Step ==
    obs'.op = "bms.run" =>
        IF "BATTERY_CHARGED" \in Fired(sys')
        THEN sys'.bms.mcu_consumed = 0
        ELSE /\ sys'.bms.mcu_consumed >= 0
             /\ sys'.bms.mcu_consumed # sys.bms.mcu_consumed =>
                    sys.bms.mcu_power_ticks + 1 = MCU_POWER_FREQUENCY

\* C30: a status exchange of the BMS task in which BATTERY_CHARGED fires ends
\* with mcu_consumed = 0; an exchange in which it does not fire changes
\* mcu_consumed only when it is the fifth since the last accounting step, and
\* leaves it at 0 or above
C30_ConsumptionReset == [][C30_Step]_vars

\* BATTERY_CHARGED has fired in an exchange that did not account, after the
\* accounting had saved a positive consumption
C30_Witness ==
    /\ obs.op = "bms.run"
    /\ "BATTERY_CHARGED" \in Fired(sys)
    /\ sys.bms.mcu_power_ticks # 0
    /\ SavedConsumption(sys) > 0
    /\ sys.bms.mcu_consumed = 0

(***************************************************************************)
(* SpecBmsState: the handler of the PSU for a state of the BMS,            *)
(* PowerSupplyController.on_bms_state, with the commands of the PSU.  The  *)
(* handler is applied to the cells of the state it is given.               *)
(***************************************************************************)
\* PowerSupplyController.TURN_OFF_VOLTAGE, in millivolts
TURN_OFF_VOLTAGE == 3500

PSU_TURN_OFF_MAX_CONFIRMATIONS == 3

\* the loop over the cells: voltage / 1000 > _turn_off_voltage
voltage_exceeded(cells) ==
    \E i \in DOMAIN cells : cells[i] # NULL /\ cells[i] > TURN_OFF_VOLTAGE

\* the branch of on_bms_state taken when a cell exceeds the voltage
PsuVoltageConfirmed(s) ==
    IF s.psu.turn_off_confirmations >= PSU_TURN_OFF_MAX_CONFIRMATIONS
    THEN PowerSupplyController_off(s)
    ELSE s

PowerSupplyController_on_bms_state(s, cells) ==
    IF voltage_exceeded(cells)
    THEN PsuVoltageConfirmed(
             [s EXCEPT !.psu.turn_off_confirmations = @ + 1])
    ELSE [s EXCEPT !.psu.turn_off_confirmations = 0]

\* cells below, at and above PSU_REDUCE_CURRENT_VOLTAGE, the last also above
\* TURN_OFF_VOLTAGE
BmsStateCells ==
    {<<3300, 3300, 3300, 3300>>, <<3300, 3450, 3300, 3300>>,
     <<3300, 3300, 3600, 3300>>}

PsuOnBmsState ==
    /\ ~sys.halted
    /\ \E cells \in BmsStateCells, r \in RepliesTo(QueriesOf("psu.off")) :
          /\ \E s \in {PowerSupplyController_on_bms_state(Begin(r), cells)} :
                /\ s.psu.turn_off_confirmations <= MaxConfirmations
                /\ sys' = End(s)
          /\ obs' = [Observe("psu.on_bms_state", "bms_task")
                        EXCEPT !.pre_psu = sys.psu, !.data = cells]
    /\ UNCHANGED <<stream, q>>

NextBmsState ==
    \/ PsuOnBmsState
    \/ ExecPsuOn
    \/ ExecPsuOff
    \/ ExecPsuSetCurrent

SpecBmsState == Init /\ [][NextBmsState]_vars

\* C31: after the PSU has handled a state of the BMS while it was active, the
\* current channel is one less than before and the PSU is active when a cell
\* was at or above PSU_REDUCE_CURRENT_VOLTAGE and the channel above 0; in
\* every other case the channel is the one before
C31_StepDown ==
    obs.op = "psu.on_bms_state" =>
        IF /\ obs.pre_psu.active
           /\ \E i \in DOMAIN obs.data :
                 obs.data[i] >= PSU_REDUCE_CURRENT_VOLTAGE
           /\ obs.pre_psu.current_channel > 0
        THEN /\ sys.psu.current_channel = obs.pre_psu.current_channel - 1
             /\ sys.psu.active
        ELSE sys.psu.current_channel = obs.pre_psu.current_channel

(***************************************************************************)
(* SpecAts: the two inputs of the transfer switch change level one at a    *)
(* time; a rising edge of an input whose handler is installed runs         *)
(* _check_state.  The commands of the wireless surface enable and disable  *)
(* the monitor, and a reboot constructs it from the profile while the      *)
(* inputs keep their levels.                                               *)
(***************************************************************************)
AtsPins == {"nc", "no"}

\* s with the level of one input changed
AtsLevel(s, pin, level) ==
    IF pin = "nc"
    THEN [s EXCEPT !.ats.nc_pin = level]
    ELSE [s EXCEPT !.ats.no_pin = level]

AtsHandled(pin, level) ==
    /\ level = 1
    /\ IF pin = "nc" THEN sys.ats.nc_irq ELSE sys.ats.no_irq

AtsEdge ==
    /\ \E pin \in AtsPins, level \in {0, 1} :
          /\ level # (IF pin = "nc" THEN sys.ats.nc_pin ELSE sys.ats.no_pin)
          /\ \E s \in {IF AtsHandled(pin, level)
                        THEN ATSController_check_state(
                                 AtsLevel(Begin(<<>>), pin, level))
                        ELSE AtsLevel(Begin(<<>>), pin, level)} :
                /\ sys' = End(s)
                /\ obs' = [Observe(IF AtsHandled(pin, level)
                                   THEN "ats._check_state" ELSE "ats.edge",
                                   "irq")
                              EXCEPT !.pre_ats = sys.ats,
                                     !.notified = s.notified]
    /\ UNCHANGED <<stream, q>>

\* the two instructions of COMMAND_ATS_ENABLE, executed by the runner
AtsEnable ==
    /\ sys' = End(ATSController_enable(
                      ProfileController_set(
                          Begin(<<>>), PROFILE_KEY_ATS,
                          ProfileState_cast(PROFILE_KEY_ATS, <<1>>))))
    /\ obs' = [Observe("ats.enable", "command_task")
                  EXCEPT !.pre_ats = sys.ats]
    /\ UNCHANGED <<stream, q>>

\* the two instructions of COMMAND_ATS_DISABLE
AtsDisable ==
    /\ sys' = End(ATSController_disable(
                      ProfileController_set(
                          Begin(<<>>), PROFILE_KEY_ATS,
                          ProfileState_cast(PROFILE_KEY_ATS, <<0>>))))
    /\ obs' = [Observe("ats.disable", "command_task")
                  EXCEPT !.pre_ats = sys.ats]
    /\ UNCHANGED <<stream, q>>

AtsReboot ==
    /\ sys' = [Boot(sys.profile.exists, sys.profile.file)
                  EXCEPT !.ats.nc_pin = sys.ats.nc_pin,
                         !.ats.no_pin = sys.ats.no_pin]
    /\ obs' = [Observe("machine.reset", "boot") EXCEPT !.pre_ats = sys.ats]
    /\ UNCHANGED <<stream, q>>

\* one iteration of the loop of ATSController.run
AtsTick ==
    /\ ~sys.halted
    /\ sys' = End(BaseState_snapshot("ats", Begin(<<>>)))
    /\ obs' = [Observe("ats.run", "ats_task") EXCEPT !.pre_ats = sys.ats]
    /\ UNCHANGED <<stream, q>>

NextAts ==
    \/ Advance
    \/ AtsTick
    \/ AtsEdge
    \/ AtsEnable
    \/ AtsDisable
    \/ AtsReboot

SpecAts == Init /\ [][NextAts]_vars

\* the mapping of the levels to the mode
ModeOfLevels(nc, no) ==
    CASE nc = 1 /\ no = 0 -> ATS_MODE_CITY
      [] nc = 0 /\ no = 1 -> ATS_MODE_BATTERY
      [] OTHER -> ATS_MODE_NONE

\* C32: after the pin handler has run, the mode is the one derived from the
\* two levels it read: CITY (grid) for NC = 1 and NO = 0, BATTERY for NC = 0
\* and NO = 1, NONE otherwise; the subscribers were notified when that mode
\* differs from the mode before, and otherwise the state is the one before
\* and nothing was notified
C32_CheckState ==
    obs.op = "ats._check_state" =>
        /\ sys.ats.mode = ModeOfLevels(sys.ats.nc_pin, sys.ats.no_pin)
        /\ IF sys.ats.mode # obs.pre_ats.mode
           THEN "ats" \in obs.notified
           ELSE /\ obs.notified = {}
                /\ [sys.ats EXCEPT !.nc_pin = 0, !.no_pin = 0]
                     = [obs.pre_ats EXCEPT !.nc_pin = 0, !.no_pin = 0]

\* the handler has run on a rising edge of NO while NC was low and the mode
\* was not BATTERY
C32_Witness ==
    /\ obs.op = "ats._check_state"
    /\ sys.ats.nc_pin = 0 /\ sys.ats.no_pin = 1
    /\ obs.pre_ats.mode # ATS_MODE_BATTERY
    /\ sys.ats.mode = ATS_MODE_BATTERY
    /\ "ats" \in obs.notified

\* C40: while the handler of both inputs is installed the mode is the
\* mapping of the levels of the inputs, and while it is not installed the
\* mode is NONE
C40_ModeFollowsPins ==
    IF sys.ats.nc_irq /\ sys.ats.no_irq
    THEN sys.ats.mode = ModeOfLevels(sys.ats.nc_pin, sys.ats.no_pin)
    ELSE sys.ats.mode = ATS_MODE_NONE

(***************************************************************************)
(* SpecKeys: profile.set with wire bytes for keys of the data model, and   *)
(* the reboot that reads the file.                                         *)
(***************************************************************************)
\* keys of the data model: one of each type of KEY_TYPES, and the model name
DataModelKeys ==
    {PROFILE_KEY_ATS, PROFILE_KEY_PSU_CURRENT, PROFILE_KEY_WIFI_SSID,
     PROFILE_KEY_MIN_VOLTAGE, PROFILE_KEY_MODEL}

KeySet == ProfileSetIn(DataModelKeys)

NextKeys ==
    \/ KeySet
    \/ ProfileReboot

SpecKeys == Init /\ [][NextKeys]_vars

\* the native type the data model declares for a key
DeclaredType(param) ==
    CASE param = PROFILE_KEY_ATS -> "bool"
      [] param = PROFILE_KEY_PSU_CURRENT -> "int"
      [] param \in {PROFILE_KEY_WIFI_SSID, PROFILE_KEY_MODEL} -> "str"
      [] param = PROFILE_KEY_MIN_VOLTAGE -> "float"

\* C33: after set(key, bytes) has returned for a key of the data model, the
\* map holds a value of the declared native type under that key, and the
\* map a reboot would load from the file holds the same value under it
C33_TypedRoundTrip ==
    (/\ obs.op = "profile.set"
     /\ obs.ctx = "command_task"
     /\ obs.reply = "returned"
     /\ obs.arg \in DataModelKeys)
        => /\ ProfileState_get(sys, obs.arg).t = DeclaredType(obs.arg)
           /\ Persisted(sys)[Hex(obs.arg)] = ProfileState_get(sys, obs.arg)

(***************************************************************************)
(* The callback graph, stated for Spec: what one handler, with the         *)
(* callbacks it runs, has entered and written when it returns.             *)
(***************************************************************************)
\* the subscribers that run callbacks of their own
SwitchingHandlers == {"psu.on", "psu.off", "inverter.on", "inverter.off"}

ReturnsIn(s, name) ==
    Cardinality({i \in DOMAIN s.log :
                    s.log[i].ev = "ret" /\ s.log[i].what = name})

FramesIn(s) ==
    Cardinality({i \in DOMAIN s.log :
                    s.log[i].ev = "tx" /\ s.log[i].what \in ModifyFrames})

Event_set(qq) == IF qq.pc = "waiting" THEN [qq EXCEPT !.pc = "get"] ELSE qq

\* Queue._put by way of put_nowait, for each instruction of a write
Queue_put(qq, instructions) == AddAll(Event_set(qq), instructions)

WakeWrites ==
    {<<COMMAND_PSU_ENABLE>>, <<COMMAND_INVERTER_ENABLE>>,
     <<COMMAND_INVERTER_DISABLE>>, <<COMMAND_ATS_ENABLE>>}

\* on_ble_irq with _IRQ_GATTS_WRITE: on_write_state adds the instructions
\* of the subcommand
WakeAdd ==
    /\ ~sys.halted
    /\ \E data \in WakeWrites :
          /\ q.nadded + Len(Enqueued(data[1], data)) <= MaxAdds
          /\ q' = Queue_put(q, Enqueued(data[1], data))
          /\ obs' = [Observe("instructions.add", "transport_callback")
                         EXCEPT !.handle = "command", !.data = data]
    /\ sys' = [sys EXCEPT !.log = <<>>]
    /\ UNCHANGED stream

\* Queue.get: while self.empty()
WakeTest ==
    /\ ~sys.halted
    /\ q.pc = "get"
    /\ q' = IF q.queue = <<>>
            THEN [q EXCEPT !.pc = "wait"]
            ELSE [q EXCEPT !.queue = Queue_get(q.queue).rest,
                           !.cur = Queue_get(q.queue).item,
                           !.pc = "exec"]
    /\ sys' = [sys EXCEPT !.log = <<>>]
    /\ obs' = Observe("instructions.get", "command_task")
    /\ UNCHANGED stream

\* Queue.get: await self._evput.wait(), the event being clear
WakeWait ==
    /\ ~sys.halted
    /\ q.pc = "wait"
    /\ q' = [q EXCEPT !.pc = "waiting"]
    /\ sys' = [sys EXCEPT !.log = <<>>]
    /\ obs' = Observe("evput.wait", "command_task")
    /\ UNCHANGED stream

NextWake ==
    \/ WakeAdd
    \/ WakeTest
    \/ WakeWait
    \/ RunnerExec

\* instruction(*args, **kwargs) returns: the runner does not stay in the call
RunnerReturns == []<>(q.pc # "exec")

\* the runner is a task of the event loop: it takes its next step whenever
\* it is runnable; nothing obliges the transport to write again
SpecWake ==
    /\ Init
    /\ [][NextWake]_vars
    /\ WF_vars(WakeTest)
    /\ WF_vars(WakeWait)
    /\ RunnerReturns

\* C35: every command added to the instruction queue is eventually executed
\* by the runner without any later add(), also when add() runs between the
\* runner's emptiness test and its wait on the put event
C35_NoLostWakeUp ==
    \A n \in 1..MaxAdds : (q.nadded >= n) ~> (q.ndone >= n)

(***************************************************************************)
(* The inverter task while the inverter is off, stated for Spec.  A step   *)
(* of the task that starts with state.active false is a step taken after   *)
(* off() returned and before the next on(): off() has cleared the          *)
(* telemetry and the internal errors.                                      *)
(***************************************************************************)
\* C36: between the return of inverter.off() and the next inverter.on() the
\* inverter task writes no STATUS_REQUEST and leaves the inverter state as
\* off() left it, telemetry NULL and no internal error, also when off() ran
\* during the task's bootstrapping sleep or its period sleep
C36_QuietWhileOff ==
    (obs.ctx = "inverter_task" /\ ~obs.pre_inverter_active) =>
        /\ TaskWrites = <<>>
        /\ InverterTelemetryNull(sys)
        /\ sys.inverter.internal_errors = {}

(***************************************************************************)
(* SpecGate: on() and off() of the two controllers on the command task,    *)
(* each in two steps, the power-gate pin first and the state second, with  *)
(* the long press of the inverter power button in between.  The one-shot   *)
(* timer's callback ButtonController.trigger is run by the interpreter     *)
(* between two statements of the running task and runs to its end.  While  *)
(* q.pc is "exec" the command task is inside q.cur.fn, after the pin and   *)
(* before the state.  The PSU has no button: the constructor call of       *)
(* _initialize_power_button passes on_change, which ButtonController does  *)
(* not take, and the exception is caught.                                  *)
(***************************************************************************)
GateCalls == {"psu.on", "psu.off", "inverter.on", "inverter.off"}

Gate_first(fn, s) ==
    CASE fn = "psu.on" -> PowerSupplyController_on_gate(s)
      [] fn = "psu.off" -> PowerSupplyController_off_gate(s)
      [] fn = "inverter.on" -> InverterController_on_gate(s)
      [] fn = "inverter.off" -> InverterController_off_gate(s)

Gate_second(fn, s) ==
    CASE fn = "psu.on" -> PowerSupplyController_on_state(s)
      [] fn = "psu.off" -> PowerSupplyController_off_state(s)
      [] fn = "inverter.on" -> InverterController_on_state(s)
      [] fn = "inverter.off" -> InverterController_off_state(s)

\* the command task enters on() or off() and drives the pin
GatePin ==
    /\ q.pc = "get"
    /\ \E fn \in GateCalls :
          /\ sys' = End(Gate_first(fn, Begin(<<>>)))
          /\ q' = [q EXCEPT !.pc = "exec",
                            !.cur = [fn |-> fn, args |-> <<>>, n |-> 0]]
          /\ obs' = Observe(fn, "command_task")
    /\ UNCHANGED stream

\* the command task goes on with self._state.on() or self._state.off() and
\* returns
GateState ==
    /\ q.pc = "exec"
    /\ \E r \in RepliesTo(QueriesOf(q.cur.fn)) :
          sys' = End(Gate_second(q.cur.fn, Begin(r)))
    /\ q' = [q EXCEPT !.pc = "get", !.cur = <<>>]
    /\ obs' = Observe(q.cur.fn, "command_task")
    /\ UNCHANGED stream

NextGate ==
    \/ GatePin
    \/ GateState
    \/ ButtonLongPress

SpecGate == Init /\ [][NextGate]_vars

\* an on() or off() of component c is in progress on the command task
InProgress(c) ==
    /\ q.pc = "exec"
    /\ q.cur.fn \in {IF c = "psu" THEN "psu.on" ELSE "inverter.on",
                     IF c = "psu" THEN "psu.off" ELSE "inverter.off"}

\* C37: whenever no on() or off() of the PSU (of the inverter) is in
\* progress, its power-gate pin is high exactly when its state.active is
\* true, also when the long-press callback of the button ran on() or off()
\* between two steps of an on() or off() of the command task
C37_GateFollowsActive ==
    /\ ~InProgress("psu") => (sys.psu.power_gate_pin = 1 <=> sys.psu.active)
    /\ ~InProgress("inverter") =>
           (sys.inverter.power_gate_pin = 1 <=> sys.inverter.active)

(***************************************************************************)
(* SpecRunner: the runner of the instruction queue with instructions that  *)
(* raise.  InstructionsQueue.run calls the instruction without a try: an   *)
(* exception ends the runner task, asyncio.gather raises it in main(), and *)
(* the outermost loop of app.py catches it and stays in its pulse loop.    *)
(* q.pc is "raised" once the runner task has ended.  The writes set a      *)
(* profile key: the float key with one byte, which _cast cannot unpack,    *)
(* the same key with four bytes, and the boolean key.                      *)
(***************************************************************************)
RunnerWrites ==
    {<<COMMAND_CONF_SET_KEY, PROFILE_KEY_MIN_VOLTAGE, 0>>,
     <<COMMAND_CONF_SET_KEY, PROFILE_KEY_MIN_VOLTAGE, 0, 0, 128, 63>>,
     <<COMMAND_CONF_SET_KEY, PROFILE_KEY_ATS, 1>>,
     <<COMMAND_PSU_ENABLE>>}

RunnerWrite == \E data \in RunnerWrites : OnWriteState("command", data)

\* the call raises: ProfileState._cast, reached from profile.set
Instruction_raises(fn, args) ==
    fn = "profile.set" /\ ProfileState_cast_raises(args[1], args[2])

\* instruction(*args, **kwargs) in InstructionsQueue.run, with profile.set
Instruction_run(fn, args, s) ==
    IF fn = "profile.set"
    THEN ProfileController_set(s, args[1],
                               ProfileState_cast(args[1], args[2]))
    ELSE Instruction_call(fn, args, s)

\* InstructionsQueue.run: the instruction is called; when it returns it is
\* marked done, when it raises the task ends
RunnerCall ==
    /\ ~sys.halted
    /\ q.pc = "exec"
    /\ IF Instruction_raises(q.cur.fn, q.cur.args)
       THEN /\ sys' = End([Log(Begin(<<>>), "raise", q.cur.fn)
                               EXCEPT !.halted = TRUE])
            /\ obs' = [Observe(q.cur.fn, "command_task")
                           EXCEPT !.arg = q.cur.args[1],
                                  !.reply = "raised"]
            /\ q' = [q EXCEPT !.cur = <<>>, !.pc = "raised",
                              !.ndone = @ + 1]
       ELSE /\ \E r \in RepliesTo(QueriesOf(q.cur.fn)) :
                  sys' = End(Instruction_run(q.cur.fn, q.cur.args, Begin(r)))
            /\ obs' = [Observe(q.cur.fn, "command_task")
                           EXCEPT !.arg = IF q.cur.args = <<>> THEN NULL
                                           ELSE q.cur.args[1],
                                  !.reply = "returned"]
            /\ q' = [q EXCEPT !.cur = <<>>, !.pc = "get",
                              !.jncnt = @ - 1, !.ndone = @ + 1]
    /\ UNCHANGED stream

NextRunner ==
    \/ RunnerWrite
    \/ RunnerGet
    \/ RunnerCall
    \/ Supervisor

\* the runner takes the next instruction whenever there is one and it is
\* alive, and a call returns or raises; nothing obliges the transport to
\* write
SpecRunner ==
    /\ Init
    /\ [][NextRunner]_vars
    /\ WF_vars(RunnerGet)
    /\ WF_vars(Supervisor)
    /\ RunnerReturns

\* C38: when an instruction executed by the runner raises, the runner
\* survives: the instructions in the queue and those added afterwards are
\* eventually all executed
C38_RunnerSurvives ==
    (obs.ctx = "command_task" /\ obs.reply = "raised") ~>
        (q.ndone = q.nadded)

(***************************************************************************)
(* The NO_RESPONSE bit between status exchanges, stated for SpecStatus.    *)
(* After the first exchange of the BMS task the telemetry is NULL only     *)
(* when the latest exchange wiped it: a parsed frame fills the cells, and  *)
(* clear() is called from the failing branch of request_status alone.      *)
(***************************************************************************)
\* C39: while the telemetry of the BMS is wiped because the latest status
\* request got no reply or a reply that failed to parse, NO_RESPONSE stays
\* set, whatever charge and discharge modify commands run, with or without
\* a reply, before the next status exchange
C39_NoResponseWhileWiped ==
    (sys.bms_pc = "loop" /\ BmsTelemetryNull(sys)) =>
        ERROR_NO_RESPONSE \in sys.bms.internal_errors

====
